---- MODULE Spec2Model ----
(***************************************************************************)
(* A model of the evaluation subsystem of EnConda-Bench                    *)
(* (src/Evaluation/Evaluate): the similarity oracle                        *)
(* (text_similarity_evaluator.py), the error matcher (error_matcher.py)    *)
(* and the evaluation engine (evaluation_engine.py), the evaluator         *)
(* (evaluator.py) with its golden-file discovery, and, of the inference    *)
(* system (src/Inference), the batch of the environment processor          *)
(* (environment_processor.py, output_manager.py) and the configuration     *)
(* loader (config_loader.py).                                              *)
(*                                                                         *)
(* Conventions.                                                            *)
(*  - A text is a sequence of one-character strings.                       *)
(*  - A confidence c is held as the integer 10*c (0.9 is 9); a match       *)
(*    score s is held as the integer 1000*s (0.96 is 960).  Ratios         *)
(*    (precision, recall, F1, accuracies) are exact fractions in lowest    *)
(*    terms; floating-point rounding is not modelled.                      *)
(*  - An operator that can raise returns a completion:                     *)
(*    Return(v) or Raise(e).  try/except is a test of .raised.             *)
(*  - An optional value is None (the empty tuple) or Some(v).             *)
(***************************************************************************)
EXTENDS Integers, Sequences, FiniteSets, TLC

VARIABLES
    \* one call of TextSimilarityEvaluator.evaluate_similarity
    o_pc,                 \* "off" | "idle" | "called" | "returned"
    o_outcome,            \* what the service did for the call
    o_result,             \* the completion of the call
    \* ErrorMatcher.match_errors (its locals and position)
    m_pc,                 \* "idle" | "outer" | "inner" | "fix" | "ret" | "done" | "aborted"
    predicted_errors,
    golden_errors,
    matches,
    used_golden_indices,
    pred_i,               \* the position (from 1) of pred_error in predicted_errors
    gold_i,               \* i, the index (from 0) of golden_error in golden_errors
    best_match_idx,
    best_score,
    score,
    desc_similarity,      \* locals of _calculate_match_score
    golden_similarity,
    matched_idx,          \* history: best_match_idx of every appended pair
    oracle_calls,         \* history: the oracle calls match_errors has made
    in_range,             \* history: every judgment so far had confidence in [0, 1]
    cand_scores,          \* history: index and score of every golden error scored for pred_error
    \* EvaluationEngine: evaluate_single_file, its caller and aggregate_results
    e_pc,                 \* "off" | "idle" | "matching" | "evaluating" | "eval_fix" | "aggregated" | "measured" | "aborted"
    error_evaluations,
    ev_pos,               \* the position (from 1) in error_matches of the pair being evaluated
    description_similar,  \* local of _evaluate_single_error
    eval_calls,           \* history: the oracle calls _evaluate_single_error has made for this file, and what each returned
    error_type_metrics,
    file_results,
    overall_result,
    \* Evaluator: __init__, run_evaluation and _save_evaluation_results
    d_pc,                 \* "off" | "new" | "ready" | "loop" | "file" | "save" | "completed" | "failed"
    openai_api_key,       \* Config.openai_api_key: "" when OPENAI_API_KEY is unset
    result_files,         \* what each result file holds
    file_pos,             \* the position (from 1) of result_file in result_files
    file_log,             \* history: what the loop printed of each file it has been through
    detailed_result_file, \* what was written to detailed_evaluation_results.json
    summary_result_file,  \* what was written to evaluation_summary.json
    \* TextSimilarityEvaluator.batch_evaluate_similarity
    b_pc,                 \* "off" | "idle" | "loop" | "called" | "done"
    text_pairs,
    batch_results,        \* results, the local of batch_evaluate_similarity
    batch_calls,          \* history: the pairs evaluate_similarity was called with
    \* Evaluator._find_golden_answer_file, called for each predicted result
    g_pc,                 \* "off" | "idle" | "loop"
    data_root_dir,        \* the entries of the repo folders, in iterdir order
    predicted_results,    \* the predicted results still to be paired
    golden_answer_files,  \* history: each result with the file found for it
    \* EnvironmentConfigProcessor.process_batch and the OutputManager
    p_pc,                 \* "off" | "idle" | "loop" | "report" | "done"
    folders,              \* the folders the loop goes through, with what befalls each
    folder_i,
    records,              \* the local of process_batch, and what it returns
    records_file,         \* processing_records.jsonl: None or its lines
    summary_report,       \* summary_report.json: None or its "summary"
    \* ConfigLoader and the dictionaries its callers hold
    c_pc,                 \* "off" | "on" | "changed": save_config or clear_cache was called
    config_file,          \* the configuration file: None or its content
    heap,                 \* the nested dictionaries, by identity
    _cached_configs,
    held                  \* the dictionaries load_config returned, by caller

oracleVars == <<o_pc, o_outcome, o_result>>
matchVars == <<m_pc, predicted_errors, golden_errors, matches,
               used_golden_indices, pred_i, gold_i, best_match_idx,
               best_score, score, desc_similarity, golden_similarity,
               matched_idx, oracle_calls, in_range, cand_scores>>
engineVars == <<e_pc, error_evaluations, ev_pos, description_similar,
                eval_calls, error_type_metrics, file_results, overall_result>>
driverVars == <<d_pc, openai_api_key, result_files, file_pos, file_log,
                detailed_result_file, summary_result_file>>
batchVars == <<b_pc, text_pairs, batch_results, batch_calls>>
goldenVars == <<g_pc, data_root_dir, predicted_results, golden_answer_files>>
inferVars == <<p_pc, folders, folder_i, records, records_file, summary_report>>
configVars == <<c_pc, config_file, heap, _cached_configs, held>>
otherVars == <<goldenVars, inferVars, configVars>>
vars == <<oracleVars, matchVars, engineVars, driverVars, batchVars, otherVars>>

None == <<>>

Some(v) == <<v>>

Return(v) == [raised |-> FALSE, value |-> v]

Raise(e) == [raised |-> TRUE, value |-> e]

----------------------------------------------------------------------------
(* Bounds *)

\* the longest predicted and golden error lists
MaxErrs == 2

\* the number of vocabulary words a service response is made of
MaxWords == 2

\* the number of files evaluated before the results are aggregated
MaxFiles == 2

\* the longest error lists the category-set metrics are computed of
MaxTypeErrs == 3

\* the number of result files run_evaluation finds
MaxResultFiles == 2

\* the text pairs of one call of batch_evaluate_similarity
MaxPairs == 2

\* the entries of the data directory
MaxEntries == 2

\* the predicted results paired with golden answer files
MaxResults == 2

\* the folders of one batch, and the lines of the records file before a
\* batch
MaxFolders == 3

\* the dictionaries load_config returns in a run
MaxHeld == 2

\* the nested dictionaries of a run
MaxObjects == 5

----------------------------------------------------------------------------
(* Texts *)

\* str.find(c): the 0-based index of the first c, -1 when there is none
find(s, c) ==
    IF \E i \in 1..Len(s) : s[i] = c
    THEN (CHOOSE i \in 1..Len(s) :
              s[i] = c /\ \A j \in 1..(i - 1) : s[j] # c) - 1
    ELSE -1

\* str.rfind(c): the 0-based index of the last c, -1 when there is none
rfind(s, c) ==
    IF \E i \in 1..Len(s) : s[i] = c
    THEN (CHOOSE i \in 1..Len(s) :
              s[i] = c /\ \A j \in (i + 1)..Len(s) : s[j] # c) - 1
    ELSE -1

\* s[a:b] for a, b >= 0
slice(s, a, b) == SubSeq(s, a + 1, IF b < Len(s) THEN b ELSE Len(s))

lower_char(c) ==
    CASE c = "T" -> "t"
      [] c = "R" -> "r"
      [] c = "U" -> "u"
      [] c = "E" -> "e"
      [] c = "S" -> "s"
      [] OTHER -> c

lower(s) == [i \in 1..Len(s) |-> lower_char(s[i])]

\* sub in s
contains(sub, s) ==
    \E i \in 1..(Len(s) - Len(sub) + 1) : SubSeq(s, i, i + Len(sub) - 1) = sub

IsWs(c) == c \in {" ", "\n", "\t", "\r"}

RECURSIVE skip_ws(_, _)
skip_ws(s, i) ==
    IF i <= Len(s) /\ IsWs(s[i]) THEN skip_ws(s, i + 1) ELSE i

RECURSIVE skip_ws_back(_, _)
skip_ws_back(s, i) ==
    IF i >= 1 /\ IsWs(s[i]) THEN skip_ws_back(s, i - 1) ELSE i

\* str.strip()
strip(s) == SubSeq(s, skip_ws(s, 1), skip_ws_back(s, Len(s)))

----------------------------------------------------------------------------
(* The words the modelled texts are made of *)

\* true
LIT_true ==
    <<"t", "r", "u", "e">>

\* similar
KW_similar ==
    <<"s", "i", "m", "i", "l", "a", "r">>

\* Similar
W_Similar ==
    <<"S", "i", "m", "i", "l", "a", "r">>

\* {"is_similar": true, "confidence": 0.9, "reason": "ok"}
DOC_yes ==
    <<"{", "\"", "i", "s", "_", "s", "i", "m", "i", "l", "a", "r",
      "\"", ":", " ", "t", "r", "u", "e", ",", " ", "\"", "c", "o",
      "n", "f", "i", "d", "e", "n", "c", "e", "\"", ":", " ", "0",
      ".", "9", ",", " ", "\"", "r", "e", "a", "s", "o", "n", "\"",
      ":", " ", "\"", "o", "k", "\"", "}">>

\* {"is_similar":false,"confidence":0.9}
DOC_no ==
    <<"{", "\"", "i", "s", "_", "s", "i", "m", "i", "l", "a", "r",
      "\"", ":", "f", "a", "l", "s", "e", ",", "\"", "c", "o", "n",
      "f", "i", "d", "e", "n", "c", "e", "\"", ":", "0", ".", "9",
      "}">>

\* {"is_similar":true,"confidence":2.0}
DOC_over ==
    <<"{", "\"", "i", "s", "_", "s", "i", "m", "i", "l", "a", "r",
      "\"", ":", "t", "r", "u", "e", ",", "\"", "c", "o", "n", "f",
      "i", "d", "e", "n", "c", "e", "\"", ":", "2", ".", "0", "}">>

\* No reason provided
MSG_no_reason ==
    <<"N", "o", " ", "r", "e", "a", "s", "o", "n", " ", "p", "r",
      "o", "v", "i", "d", "e", "d">>

\* Parsed from non-JSON response
MSG_heuristic ==
    <<"P", "a", "r", "s", "e", "d", " ", "f", "r", "o", "m", " ",
      "n", "o", "n", "-", "J", "S", "O", "N", " ", "r", "e", "s",
      "p", "o", "n", "s", "e">>

\* Parsing failed
MSG_parsing_failed ==
    <<"P", "a", "r", "s", "i", "n", "g", " ", "f", "a", "i", "l",
      "e", "d">>

\* Evaluation failed
MSG_evaluation_failed ==
    <<"E", "v", "a", "l", "u", "a", "t", "i", "o", "n", " ", "f",
      "a", "i", "l", "e", "d">>

----------------------------------------------------------------------------
(* json.loads, for the flat objects the service is asked for.  A value is *)
(* a literal, a string without escapes, or a number with at most one      *)
(* fractional digit (held as ten times its value).                        *)

JBool(b) == [t |-> "bool", b |-> b, n |-> 0, s |-> <<>>]

JNum(n) == [t |-> "num", b |-> FALSE, n |-> n, s |-> <<>>]

JStr(s) == [t |-> "str", b |-> FALSE, n |-> 0, s |-> s]

JNull == [t |-> "null", b |-> FALSE, n |-> 0, s |-> <<>>]

Digits == {"0", "1", "2", "3", "4", "5", "6", "7", "8", "9"}

DigitVal(c) ==
    CASE c = "0" -> 0 [] c = "1" -> 1 [] c = "2" -> 2 [] c = "3" -> 3
      [] c = "4" -> 4 [] c = "5" -> 5 [] c = "6" -> 6 [] c = "7" -> 7
      [] c = "8" -> 8 [] c = "9" -> 9

\* the first index >= i of s that holds no digit
RECURSIVE digits_end(_, _)
digits_end(s, i) ==
    IF i <= Len(s) /\ s[i] \in Digits THEN digits_end(s, i + 1) ELSE i

\* the value of the digits s[a..b]
RECURSIVE digits_val(_, _, _)
digits_val(s, a, b) ==
    IF b < a THEN 0 ELSE 10 * digits_val(s, a, b - 1) + DigitVal(s[b])

\* the index of the quote closing a string whose text starts at j, 0 if none
RECURSIVE string_end(_, _)
string_end(s, j) ==
    IF j > Len(s) THEN 0
    ELSE IF s[j] = "\"" THEN j
    ELSE string_end(s, j + 1)

NoParse == [ok |-> FALSE, val |-> JNull, next |-> 0]

Parsed(val, next) == [ok |-> TRUE, val |-> val, next |-> next]

starts_with(s, i, w) ==
    i + Len(w) - 1 <= Len(s) /\ SubSeq(s, i, i + Len(w) - 1) = w

\* a number whose digits start at s[a], whose integer part ends before
\* s[b] and whose fraction, if any, ends before s[c]
number_of(s, sign, a, b, c) ==
    IF b = a THEN NoParse
    ELSE IF b <= Len(s) /\ s[b] = "."
    THEN IF c # b + 2 THEN NoParse
         ELSE Parsed(JNum(sign * (10 * digits_val(s, a, b - 1)
                                  + DigitVal(s[b + 1]))), c)
    ELSE Parsed(JNum(sign * 10 * digits_val(s, a, b - 1)), b)

number_from(s, sign, a, b) ==
    number_of(s, sign, a, b, digits_end(s, b + 1))

scan_number(s, i) ==
    IF s[i] = "-" THEN number_from(s, -1, i + 1, digits_end(s, i + 1))
    ELSE number_from(s, 1, i, digits_end(s, i))

\* the string whose text starts at s[i] and whose closing quote is s[e]
string_of(s, i, e) ==
    IF e = 0 THEN NoParse ELSE Parsed(JStr(SubSeq(s, i, e - 1)), e + 1)

\* one JSON value starting at s[i]
scan_value(s, i) ==
    IF i > Len(s) THEN NoParse
    ELSE IF starts_with(s, i, LIT_true) THEN Parsed(JBool(TRUE), i + 4)
    ELSE IF starts_with(s, i, <<"f", "a", "l", "s", "e">>) THEN Parsed(JBool(FALSE), i + 5)
    ELSE IF starts_with(s, i, <<"n", "u", "l", "l">>) THEN Parsed(JNull, i + 4)
    ELSE IF s[i] = "\"" THEN string_of(s, i + 1, string_end(s, i + 1))
    ELSE IF s[i] = "-" \/ s[i] \in Digits THEN scan_number(s, i)
    ELSE NoParse

\* The members of an object: acc holds the pairs read so far; the next
\* key opens at s[k] and closes at s[e], its colon is s[c], its value is
\* v and the next sign after the value is s[d].
RECURSIVE scan_members(_, _, _)
after_value(s, acc, k, e, v, d) ==
    IF ~v.ok \/ d > Len(s) THEN Raise("JSONDecodeError")
    ELSE IF s[d] = ","
    THEN scan_members(s, skip_ws(s, d + 1),
                      Append(acc, <<SubSeq(s, k + 1, e - 1), v.val>>))
    ELSE IF s[d] = "}" /\ skip_ws(s, d + 1) > Len(s)
    THEN Return(Append(acc, <<SubSeq(s, k + 1, e - 1), v.val>>))
    ELSE Raise("JSONDecodeError")

value_at(s, acc, k, e, v) == after_value(s, acc, k, e, v, skip_ws(s, v.next))

after_key(s, acc, k, e, c) ==
    IF e = 0 \/ c > Len(s) \/ s[c] # ":" THEN Raise("JSONDecodeError")
    ELSE value_at(s, acc, k, e, scan_value(s, skip_ws(s, c + 1)))

key_at(s, acc, k, e) == after_key(s, acc, k, e, skip_ws(s, e + 1))

scan_members(s, k, acc) ==
    IF k > Len(s) \/ s[k] # "\"" THEN Raise("JSONDecodeError")
    ELSE key_at(s, acc, k, string_end(s, k + 1))

\* the object that opens at s[i], k being the first sign after the brace
object_at(s, i, k) ==
    IF i > Len(s) \/ s[i] # "{" THEN Raise("JSONDecodeError")
    ELSE IF k <= Len(s) /\ s[k] = "}"
    THEN IF skip_ws(s, k + 1) > Len(s) THEN Return(<<>>)
         ELSE Raise("JSONDecodeError")
    ELSE scan_members(s, k, <<>>)

object_from(s, i) == object_at(s, i, skip_ws(s, i + 1))

\* json.loads of a text that is empty or starts with "{": the object as the
\* sequence of its <<key, value>> pairs, or JSONDecodeError
json_loads(s) == object_from(s, skip_ws(s, 1))

\* dict.get(key, default): the last pair of that key wins
RECURSIVE dict_get_from(_, _, _, _)
dict_get_from(d, key, default, i) ==
    IF i < 1 THEN default
    ELSE IF d[i][1] = key THEN d[i][2]
    ELSE dict_get_from(d, key, default, i - 1)

dict_get(d, key, default) == dict_get_from(d, key, default, Len(d))

\* float(str): r is the number read at the start of the string
float_of_str(v, r) ==
    IF r.ok /\ r.next > Len(v.s) THEN Return(r.val.n) ELSE Raise("ValueError")

\* float(v): a number is itself, a bool is 0.0 or 1.0, a numeric string is
\* its number; anything else raises
float_(v) ==
    CASE v.t = "num" -> Return(v.n)
      [] v.t = "bool" -> Return(IF v.b THEN 10 ELSE 0)
      [] v.t = "str" ->
            float_of_str(v, IF v.s = <<>> THEN NoParse ELSE scan_number(v.s, 1))
      [] OTHER -> Raise("TypeError")

----------------------------------------------------------------------------
(* The similarity oracle: text_similarity_evaluator.py *)

\* evaluation_models.TextSimilarityResult; reason is the message without
\* the exception text the code appends to it.
Judgment(is_similar, confidence, reason) ==
    [is_similar |-> is_similar, confidence |-> confidence, reason |-> reason]

\* The pydantic constructor, given the completion of float(): is_similar
\* must be a bool and reason a str (the coercion of 0/1 and of
\* "true"/"false" strings to bool is not modelled: no modelled response
\* carries them).
TextSimilarityResult(is_similar, confidence, reason) ==
    IF confidence.raised THEN confidence
    ELSE IF is_similar.t # "bool" \/ reason.t # "str"
    THEN Raise("ValidationError")
    ELSE Return(Judgment(is_similar.b, confidence.value, reason.s))

\* lines 122-126: the judgment built of the parsed object
result_of_data(result_data) ==
    TextSimilarityResult(
        dict_get(result_data,
                 <<"i", "s", "_", "s", "i", "m", "i", "l", "a", "r">>,
                 JBool(FALSE)),
        float_(dict_get(result_data,
                        <<"c", "o", "n", "f", "i", "d", "e", "n", "c", "e">>,
                        JNum(0))),
        dict_get(result_data, <<"r", "e", "a", "s", "o", "n">>,
                 JStr(MSG_no_reason)))

\* lines 120-126, given the completion of json.loads
result_of_loaded(loaded) ==
    IF loaded.raised THEN loaded ELSE result_of_data(loaded.value)

\* lines 129-134 reading only "true"
heuristic_true_only(lowered) ==
    Return(Judgment(contains(LIT_true, lowered), 5, MSG_heuristic))

\* lines 129-134, given result_text.lower()
heuristic(lowered) ==
    Return(Judgment(contains(LIT_true, lowered) \/ contains(KW_similar, lowered),
                    5, MSG_heuristic))

\* lines 118-134, given start_idx and end_idx
parse_branch(result_text, start_idx, end_idx) ==
    IF start_idx # -1 /\ end_idx # -1
    THEN result_of_loaded(json_loads(slice(result_text, start_idx, end_idx)))
    ELSE heuristic(lower(result_text))

\* the body of the try block of _parse_similarity_result: lines 115-134
parse_try(result_text) ==
    parse_branch(result_text, find(result_text, "{"),
                 rfind(result_text, "}") + 1)

\* except Exception: the failure judgment in place of the exception
except_failure(r, reason) ==
    IF r.raised THEN Return(Judgment(FALSE, 0, reason)) ELSE r

_parse_similarity_result(result_text) ==
    except_failure(parse_try(result_text), MSG_parsing_failed)

\* What the service does for one request: the request raises (network
\* error, timeout, no choices), or the message content is None, or it
\* is a text.
ServiceError == [kind |-> "error", content |-> <<>>]

NoContent == [kind |-> "none", content |-> <<>>]

Content(text) == [kind |-> "text", content |-> text]

\* the body of the try block of evaluate_similarity: lines 46-63
evaluate_try(outcome) ==
    IF outcome.kind = "error" THEN Raise("APIError")
    ELSE IF outcome.kind = "text" /\ outcome.content # <<>>
    THEN _parse_similarity_result(strip(outcome.content))
    ELSE _parse_similarity_result(<<>>)

evaluate_similarity(outcome) ==
    except_failure(evaluate_try(outcome), MSG_evaluation_failed)

Vocabulary ==
    {<<"{">>, <<"}">>, <<" ">>, <<"T", "R", "U", "E">>, W_Similar,
     <<"n", "o">>,
     \* "is_similar":true
     <<"\"", "i", "s", "_", "s", "i", "m", "i", "l", "a", "r", "\"", ":",
       "t", "r", "u", "e">>,
     DOC_yes, DOC_no, DOC_over,
     \* {"confidence":"high"}
     <<"{", "\"", "c", "o", "n", "f", "i", "d", "e", "n", "c", "e",
       "\"", ":", "\"", "h", "i", "g", "h", "\"", "}">>}

\* the texts made of at most n words
RECURSIVE TextsOf(_)
TextsOf(n) ==
    IF n = 0 THEN {<<>>}
    ELSE LET shorter == TextsOf(n - 1)
         IN  shorter \cup {t \o w : t \in shorter, w \in Vocabulary}

ServiceOutcomes ==
    {ServiceError, NoContent} \cup {Content(t) : t \in TextsOf(MaxWords)}

OracleInit ==
    /\ o_pc = "idle"
    /\ o_outcome = None
    /\ o_result = None

\* evaluate_similarity is entered and the request is sent
OracleCall ==
    /\ o_pc = "idle"
    /\ o_pc' = "called"
    /\ UNCHANGED <<o_outcome, o_result>>

\* the service answers (or fails) and evaluate_similarity completes
OracleRespond ==
    /\ o_pc = "called"
    /\ \E outcome \in ServiceOutcomes :
          /\ o_outcome' = outcome
          /\ o_result' = evaluate_similarity(outcome)
    /\ o_pc' = "returned"

\* the caller takes the result
OracleTake ==
    /\ o_pc = "returned"
    /\ o_pc' = "idle"
    /\ o_outcome' = None
    /\ o_result' = None

OracleIdle == o_pc = "off" /\ o_outcome = None /\ o_result = None

----------------------------------------------------------------------------
(* The error matcher: error_matcher.py *)

Categories == {"E1", "E2"}

\* evaluation_models.PredictedError
PredictedError ==
    [error_type : Categories, error_description : {"d"}, fix_answer : {"f"}]

\* evaluation_models.GoldenError
GoldenError ==
    [error_type : Categories, error_description : {"g"}, golden_answer : {"a"}]

\* the sequences over S of length at most n
SeqsUpTo(S, n) == UNION {[1..k -> S] : k \in 0..n}

\* 0.6, 0.3 and 0.1 of _calculate_match_score and the threshold 0.5 of
\* match_errors, in thousandths; a confidence is in tenths, so 0.3 * c is
\* 30 thousandths per tenth of c
TypeWeight == 600

DescWeight == 30

FixWeight == 10

Threshold == 500

\* _calculate_match_score with the two weights of the judgments exchanged
score_weights_swapped(pred_error, golden_error, desc, fix) ==
    LET s0 == 0
        s1 == IF pred_error.error_type = golden_error.error_type
              THEN s0 + TypeWeight ELSE s0
        s2 == IF desc.is_similar THEN s1 + FixWeight * desc.confidence ELSE s1
        s3 == IF fix.is_similar THEN s2 + DescWeight * fix.confidence ELSE s2
    IN  s3

\* _calculate_match_score, given the judgments desc and fix that its two
\* calls of evaluate_similarity returned
_calculate_match_score(pred_error, golden_error, desc, fix) ==
    LET s0 == 0
        s1 == IF pred_error.error_type = golden_error.error_type
              THEN s0 + TypeWeight ELSE s0
        s2 == IF desc.is_similar THEN s1 + DescWeight * desc.confidence ELSE s1
        s3 == IF fix.is_similar THEN s2 + FixWeight * fix.confidence ELSE s2
    IN  s3

\* the completions evaluate_similarity returns to the matcher, over the
\* outcomes of the service the matcher is run against
MatchJudgments ==
    {evaluate_similarity(outcome) :
        outcome \in {ServiceError, Content(W_Similar), Content(DOC_yes),
                     Content(DOC_no), Content(DOC_over),
                     \* {"is_similar":true,"confidence":1.0}
                     Content(<<"{", "\"", "i", "s", "_", "s", "i", "m", "i",
                               "l", "a", "r", "\"", ":", "t", "r", "u", "e",
                               ",", "\"", "c", "o", "n", "f", "i", "d", "e",
                               "n", "c", "e", "\"", ":", "1", ".", "0",
                               "}">>)}}

\* the completions evaluate_similarity returns inside
\* evaluate_single_file, over the outcomes of the service the engine is
\* run against
EngineJudgments ==
    {evaluate_similarity(outcome) :
        outcome \in {ServiceError, Content(DOC_yes)}}

ConfidenceInRange(j) == j.confidence >= 0 /\ j.confidence <= 10

MatchIdle ==
    /\ m_pc = "idle"
    /\ predicted_errors = <<>>
    /\ golden_errors = <<>>
    /\ matches = <<>>
    /\ used_golden_indices = {}
    /\ pred_i = 0
    /\ gold_i = 0
    /\ best_match_idx = None
    /\ best_score = 0
    /\ score = 0
    /\ desc_similarity = None
    /\ golden_similarity = None
    /\ matched_idx = <<>>
    /\ oracle_calls = 0
    /\ in_range = TRUE
    /\ cand_scores = <<>>

\* the locals of match_errors are gone
MatchReset ==
    /\ m_pc' = "idle"
    /\ predicted_errors' = <<>>
    /\ golden_errors' = <<>>
    /\ matches' = <<>>
    /\ used_golden_indices' = {}
    /\ pred_i' = 0
    /\ gold_i' = 0
    /\ best_match_idx' = None
    /\ best_score' = 0
    /\ score' = 0
    /\ desc_similarity' = None
    /\ golden_similarity' = None
    /\ matched_idx' = <<>>
    /\ oracle_calls' = 0
    /\ in_range' = TRUE
    /\ cand_scores' = <<>>

\* match_errors is entered: lines 34-35
MatchEnter(predicted, golden) ==
    /\ m_pc = "idle"
    /\ m_pc' = "outer"
    /\ predicted_errors' = predicted
    /\ golden_errors' = golden
    /\ matches' = <<>>
    /\ used_golden_indices' = {}
    /\ pred_i' = 1
    /\ gold_i' = 0
    /\ best_match_idx' = None
    /\ best_score' = 0
    /\ score' = 0
    /\ desc_similarity' = None
    /\ golden_similarity' = None
    /\ matched_idx' = <<>>
    /\ oracle_calls' = 0
    /\ in_range' = TRUE
    /\ cand_scores' = <<>>

\* the outer loop takes the next predicted error: lines 38-41
BeginPred ==
    /\ m_pc = "outer"
    /\ pred_i <= Len(predicted_errors)
    /\ m_pc' = "inner"
    /\ best_match_idx' = None
    /\ best_score' = 0
    /\ gold_i' = 0
    /\ cand_scores' = <<>>
    /\ UNCHANGED <<predicted_errors, golden_errors, matches,
                   used_golden_indices, pred_i, score, desc_similarity,
                   golden_similarity, matched_idx, oracle_calls, in_range>>

\* the inner loop meets a golden error already used: lines 44-45
SkipUsed ==
    /\ m_pc = "inner"
    /\ gold_i < Len(golden_errors)
    /\ gold_i \in used_golden_indices
    /\ gold_i' = gold_i + 1
    /\ UNCHANGED <<m_pc, predicted_errors, golden_errors, matches,
                   used_golden_indices, pred_i, best_match_idx, best_score,
                   score, desc_similarity, golden_similarity, matched_idx,
                   oracle_calls, in_range,
                   cand_scores>>

\* _calculate_match_score is called and judges the descriptions:
\* lines 48, 72-83
ScoreDescOf(judgments) ==
    /\ m_pc = "inner"
    /\ gold_i < Len(golden_errors)
    /\ gold_i \notin used_golden_indices
    /\ \E r \in judgments :
              IF r.raised
              THEN /\ m_pc' = "aborted"
                   /\ UNCHANGED <<desc_similarity, in_range>>
              ELSE /\ m_pc' = "fix"
                   /\ desc_similarity' = r.value
                   /\ in_range' = (in_range /\ ConfidenceInRange(r.value))
    /\ oracle_calls' = oracle_calls + 1
    /\ UNCHANGED <<predicted_errors, golden_errors, matches,
                   used_golden_indices, pred_i, gold_i, best_match_idx,
                   best_score, score, golden_similarity, matched_idx,
                   cand_scores>>

\* _calculate_match_score judges the fixes and reaches its return:
\* lines 84-96
ScoreFixOf(judgments) ==
    /\ m_pc = "fix"
    /\ \E r \in judgments :
              IF r.raised
              THEN /\ m_pc' = "aborted"
                   /\ UNCHANGED <<golden_similarity, score, in_range>>
              ELSE /\ m_pc' = "ret"
                   /\ golden_similarity' = r.value
                   /\ score' = _calculate_match_score(
                                   predicted_errors[pred_i],
                                   golden_errors[gold_i + 1],
                                   desc_similarity, r.value)
                   /\ in_range' = (in_range /\ ConfidenceInRange(r.value))
    /\ oracle_calls' = oracle_calls + 1
    /\ UNCHANGED <<predicted_errors, golden_errors, matches,
                   used_golden_indices, pred_i, gold_i, best_match_idx,
                   best_score, desc_similarity, matched_idx, cand_scores>>

\* the test of line 50 without the threshold
is_better_without_threshold(s, best) == s > best

\* the test of line 50 taking a score equal to the threshold
is_better_from_threshold(s, best) == s > best /\ s >= Threshold

\* the test of line 50
is_better(s, best) == s > best /\ s > Threshold

\* the score is returned and compared with the best so far: lines 48-53
ScoreReturn ==
    /\ m_pc = "ret"
    /\ m_pc' = "inner"
    /\ IF is_better(score, best_score)
       THEN /\ best_score' = score
            /\ best_match_idx' = Some(gold_i)
       ELSE UNCHANGED <<best_score, best_match_idx>>
    /\ gold_i' = gold_i + 1
    /\ desc_similarity' = None
    /\ golden_similarity' = None
    /\ cand_scores' = Append(cand_scores, [idx |-> gold_i, score |-> score])
    /\ UNCHANGED <<predicted_errors, golden_errors, matches,
                   used_golden_indices, pred_i, score, matched_idx,
                   oracle_calls, in_range>>

\* used_golden_indices after line 56, never adding
used_not_added(used, idx) == used

\* used_golden_indices after line 56, the lower indices marked as well
used_up_to(used, idx) == used \cup (0..idx)

\* used_golden_indices after line 56
used_after_match(used, idx) == used \cup {idx}

\* the pair appended by line 57 or line 59
pair_of(pred_error, idx, golden) ==
    IF idx # None THEN <<pred_error, Some(golden[idx[1] + 1])>>
    ELSE <<pred_error, None>>

\* matches after lines 55-59 without the else branch
append_if_matched(pairs, pred_error, idx, golden) ==
    IF idx # None THEN Append(pairs, pair_of(pred_error, idx, golden))
    ELSE pairs

\* matches after lines 55-59
append_pair(pairs, pred_error, idx, golden) ==
    Append(pairs, pair_of(pred_error, idx, golden))

\* the inner loop is over and the pair is appended: lines 55-59
EndPred ==
    /\ m_pc = "inner"
    /\ gold_i >= Len(golden_errors)
    /\ m_pc' = "outer"
    /\ used_golden_indices' =
          IF best_match_idx # None
          THEN used_after_match(used_golden_indices, best_match_idx[1])
          ELSE used_golden_indices
    /\ matches' = append_pair(matches, predicted_errors[pred_i],
                               best_match_idx, golden_errors)
    /\ matched_idx' = Append(matched_idx, best_match_idx)
    /\ pred_i' = pred_i + 1
    /\ UNCHANGED <<predicted_errors, golden_errors, gold_i, best_match_idx,
                   best_score, score, desc_similarity, golden_similarity,
                   oracle_calls, in_range,
                   cand_scores>>

\* match_errors returns matches: line 61
MatchReturn ==
    /\ m_pc = "outer"
    /\ pred_i > Len(predicted_errors)
    /\ m_pc' = "done"
    /\ UNCHANGED <<predicted_errors, golden_errors, matches,
                   used_golden_indices, pred_i, gold_i, best_match_idx,
                   best_score, score, desc_similarity, golden_similarity,
                   matched_idx, oracle_calls, in_range,
                   cand_scores>>

----------------------------------------------------------------------------
(* Exact ratios *)

\* the greatest common divisor of a >= 0 and b > 0
GCD(a, b) ==
    CHOOSE g \in 1..b :
        /\ a % g = 0 /\ b % g = 0
        /\ \A h \in (g + 1)..b : a % h # 0 \/ b % h # 0

\* n / d in lowest terms, for n >= 0 and d > 0
Fr(n, d) == LET g == GCD(n, d) IN [num |-> n \div g, den |-> d \div g]

FrInt(n) == [num |-> n, den |-> 1]

FrAdd(a, b) == Fr(a.num * b.den + b.num * a.den, a.den * b.den)

FrMul(a, b) == Fr(a.num * b.num, a.den * b.den)

\* a / b for b > 0
FrDiv(a, b) == Fr(a.num * b.den, a.den * b.num)

----------------------------------------------------------------------------
(* Category-set metrics: error_matcher.py and evaluation_engine.py *)

\* the error_type values of a list of errors
types_of(errors) == {errors[k].error_type : k \in 1..Len(errors)}

get_error_type_sets(predicted, golden) ==
    <<types_of(predicted), types_of(golden)>>

\* calculate_error_type_metrics with every predicted type a false positive
metrics_golden_not_subtracted(predicted, golden) ==
    LET sets == get_error_type_sets(predicted, golden)
    IN  [true_positives |-> Cardinality(sets[1] \cap sets[2]),
         false_positives |-> Cardinality(sets[1]),
         false_negatives |-> Cardinality(sets[2] \ sets[1])]

\* calculate_error_type_metrics counting the predicted errors, not their types
count_metrics_per_error(predicted, golden) ==
    LET golden_types == types_of(golden)
        hit == {k \in 1..Len(predicted) : predicted[k].error_type \in golden_types}
    IN  [true_positives |-> Cardinality(hit),
         false_positives |-> Len(predicted) - Cardinality(hit),
         false_negatives |-> Cardinality(golden_types \ types_of(predicted))]

calculate_error_type_metrics(predicted, golden) ==
    LET sets == get_error_type_sets(predicted, golden)
        pred_types == sets[1]
        golden_types == sets[2]
    IN  [true_positives |-> Cardinality(pred_types \cap golden_types),
         false_positives |-> Cardinality(pred_types \ golden_types),
         false_negatives |-> Cardinality(golden_types \ pred_types)]

\* evaluation_models.ErrorTypeMetrics
ErrorTypeMetrics(precision, recall, f1, tp, fp, fn) ==
    [precision |-> precision, recall |-> recall, f1 |-> f1,
     true_positives |-> tp, false_positives |-> fp, false_negatives |-> fn]

\* precision without the test of its denominator: ZeroDivisionError
ratio_unguarded(tp, other) ==
    IF tp + other = 0 THEN Raise("ZeroDivisionError")
    ELSE Return(Fr(tp, tp + other))

\* tp / (tp + other) if (tp + other) > 0 else 0.0: precision with other = fp,
\* recall with other = fn
ratio(tp, other) ==
    IF tp + other > 0 THEN Return(Fr(tp, tp + other)) ELSE Return(FrInt(0))

\* f1 as the sum of precision and recall
f1_as_sum(precision, recall) == FrAdd(precision, recall)

\* 2 * precision * recall / (precision + recall) if their sum > 0 else 0.0
f1_of(precision, recall) ==
    IF FrAdd(precision, recall).num > 0
    THEN FrDiv(FrMul(FrMul(FrInt(2), precision), recall),
               FrAdd(precision, recall))
    ELSE FrInt(0)

\* the metrics record the code derives of the three counts, or the
\* exception its divisions raise
derive(tp, fp, fn) ==
    LET precision == ratio(tp, fp)
        recall == ratio(tp, fn)
    IN  IF precision.raised THEN precision
        ELSE IF recall.raised THEN recall
        ELSE Return(ErrorTypeMetrics(precision.value, recall.value,
                                     f1_of(precision.value, recall.value),
                                     tp, fp, fn))

_calculate_error_type_metrics(predicted, golden) ==
    LET metrics_data == calculate_error_type_metrics(predicted, golden)
    IN  derive(metrics_data.true_positives, metrics_data.false_positives,
               metrics_data.false_negatives)

----------------------------------------------------------------------------
(* The evaluation engine: evaluation_engine.py *)

\* evaluation_models.ErrorEvaluationResult
ErrorEvaluationResult(pred_error, matched_golden, correct, desc, fix) ==
    [predicted_error |-> pred_error,
     matched_golden_error |-> matched_golden,
     error_type_correct |-> correct,
     description_similar |-> desc,
     golden_answer_similar |-> fix]

\* whether _calculate_text_accuracy counts an evaluation as correct:
\* lines 173-181
counts_correct(evaluation, text_type) ==
    /\ evaluation.matched_golden_error # None
    /\ IF text_type = "description" /\ evaluation.description_similar # None
       THEN evaluation.description_similar[1].is_similar
       ELSE /\ text_type = "golden_answer"
            /\ evaluation.golden_answer_similar # None
            /\ evaluation.golden_answer_similar[1].is_similar

count_correct(evals, text_type) ==
    Cardinality({k \in 1..Len(evals) : counts_correct(evals[k], text_type)})

\* total_matched counting the unmatched evaluations too
count_every_evaluation(evals) == Len(evals)

\* total_matched of lines 169-174
count_matched(evals) ==
    Cardinality({k \in 1..Len(evals) : evals[k].matched_golden_error # None})

_calculate_text_accuracy(evals, text_type) ==
    LET total_matched == count_matched(evals)
        correct_count == count_correct(evals, text_type)
    IN  IF total_matched > 0 THEN Fr(correct_count, total_matched)
        ELSE FrInt(0)

\* evaluation_models.FileEvaluationResult (readme_name and repo_name are
\* copied from the predicted result and read by nothing modelled here)
FileEvaluationResult(predicted, golden, evals, metrics) ==
    [golden_errors_count |-> Len(golden),
     predicted_errors_count |-> Len(predicted),
     error_evaluations |-> evals,
     error_type_metrics |-> metrics,
     description_accuracy |-> _calculate_text_accuracy(evals, "description"),
     golden_answer_accuracy |-> _calculate_text_accuracy(evals, "golden_answer")]

\* sum(result.error_type_metrics.<key> for result in results)
sum_counts(results, key) ==
    LET partial[k \in 0..Len(results)] ==
            IF k = 0 THEN 0
            ELSE partial[k - 1] + results[k].error_type_metrics[key]
    IN  partial[Len(results)]

\* sum(result.<key> for result in results), for the two accuracies
sum_accuracies(results, key) ==
    LET partial[k \in 0..Len(results)] ==
            IF k = 0 THEN FrInt(0) ELSE FrAdd(partial[k - 1], results[k][key])
    IN  partial[Len(results)]

\* the evaluations of the first file only
first_file_evaluations(results) == results[1].error_evaluations

\* every ErrorEvaluationResult of every file, in order
all_evaluations(results) ==
    LET upto[k \in 0..Len(results)] ==
            IF k = 0 THEN <<>>
            ELSE upto[k - 1] \o results[k].error_evaluations
    IN  upto[Len(results)]

\* error_type_stats with every matched evaluation a true positive
stats_matched_is_tp(evals, error_type) ==
    LET mine == {k \in 1..Len(evals) :
                    evals[k].predicted_error.error_type = error_type}
        tp == {k \in mine : evals[k].matched_golden_error # None}
    IN  [tp |-> Cardinality(tp), fp |-> Cardinality(mine \ tp), fn |-> 0]

\* the counts _calculate_error_type_breakdown collects for one error type
breakdown_stats(evals, error_type) ==
    LET mine == {k \in 1..Len(evals) :
                    evals[k].predicted_error.error_type = error_type}
        tp == {k \in mine : evals[k].matched_golden_error # None
                            /\ evals[k].error_type_correct}
    IN  [tp |-> Cardinality(tp), fp |-> Cardinality(mine \ tp), fn |-> 0]

_calculate_error_type_breakdown(results) ==
    LET evals == all_evaluations(results)
        seen == {evals[k].predicted_error.error_type : k \in 1..Len(evals)}
    IN  [error_type \in seen |->
            LET stats == breakdown_stats(evals, error_type)
            IN  derive(stats.tp, stats.fp, stats.fn).value]

\* evaluation_models.OverallEvaluationResult
OverallEvaluationResult(n, metrics, desc_acc, fix_acc, per_file, breakdown) ==
    [total_files |-> n,
     overall_error_type_metrics |-> metrics,
     overall_description_accuracy |-> desc_acc,
     overall_golden_answer_accuracy |-> fix_acc,
     per_file_results |-> per_file,
     error_type_breakdown |-> breakdown]

\* the overall metrics with precision and recall as the means of the
\* files' precisions and recalls
overall_metrics_averaged(results) ==
    LET n == Len(results)
        sums[k \in 0..n] ==
            IF k = 0 THEN [p |-> FrInt(0), r |-> FrInt(0)]
            ELSE [p |-> FrAdd(sums[k - 1].p,
                              results[k].error_type_metrics.precision),
                  r |-> FrAdd(sums[k - 1].r,
                              results[k].error_type_metrics.recall)]
        precision == FrDiv(sums[n].p, FrInt(n))
        recall == FrDiv(sums[n].r, FrInt(n))
    IN  Return(ErrorTypeMetrics(precision, recall, f1_of(precision, recall),
                                sum_counts(results, "true_positives"),
                                sum_counts(results, "false_positives"),
                                sum_counts(results, "false_negatives")))

\* lines 201-217 of aggregate_results
overall_metrics(results) ==
    derive(sum_counts(results, "true_positives"),
           sum_counts(results, "false_positives"),
           sum_counts(results, "false_negatives"))

\* lines 201-233 of aggregate_results; on an empty list line 220 divides
\* by zero
aggregate_nonempty(results) ==
    IF Len(results) = 0 THEN Raise("ZeroDivisionError")
    ELSE
    LET metrics == overall_metrics(results)
    IN  IF metrics.raised THEN metrics
        ELSE Return(OverallEvaluationResult(
                 Len(results),
                 metrics.value,
                 FrDiv(sum_accuracies(results, "description_accuracy"),
                       FrInt(Len(results))),
                 FrDiv(sum_accuracies(results, "golden_answer_accuracy"),
                       FrInt(Len(results))),
                 results,
                 _calculate_error_type_breakdown(results)))

\* aggregate_results going on to line 201 whatever the list
aggregate_unguarded(results) == aggregate_nonempty(results)

aggregate_results(results) ==
    IF Len(results) = 0
    THEN Return(OverallEvaluationResult(
             0, ErrorTypeMetrics(FrInt(0), FrInt(0), FrInt(0), 0, 0, 0),
             FrInt(0), FrInt(0), <<>>, <<>>))
    ELSE aggregate_nonempty(results)

EngineIdle ==
    /\ e_pc = "off"
    /\ error_evaluations = <<>>
    /\ ev_pos = 0
    /\ description_similar = None
    /\ eval_calls = <<>>
    /\ error_type_metrics = None
    /\ file_results = <<>>
    /\ overall_result = None

EngineInit ==
    /\ e_pc = "idle"
    /\ error_evaluations = <<>>
    /\ ev_pos = 0
    /\ description_similar = None
    /\ eval_calls = <<>>
    /\ error_type_metrics = None
    /\ file_results = <<>>
    /\ overall_result = None

\* evaluate_single_file is called and calls match_errors: lines 69-72
EvaluateFile(predicted, golden) ==
    /\ e_pc = "idle"
    /\ Len(file_results) < MaxFiles
    /\ MatchEnter(predicted, golden)
    /\ e_pc' = "matching"
    /\ error_evaluations' = <<>>
    /\ ev_pos' = 0
    /\ eval_calls' = <<>>
    /\ error_type_metrics' = None
    /\ UNCHANGED <<description_similar, file_results, overall_result>>

\* match_errors has returned error_matches: lines 75-76
BeginEvaluate ==
    /\ e_pc = "matching"
    /\ m_pc = "done"
    /\ e_pc' = "evaluating"
    /\ ev_pos' = 1
    /\ m_pc' = "idle"
    /\ UNCHANGED <<predicted_errors, golden_errors, matches,
                   used_golden_indices, pred_i, gold_i, best_match_idx,
                   best_score, score, desc_similarity, golden_similarity,
                   matched_idx, oracle_calls, in_range,
                   cand_scores>>
    /\ UNCHANGED <<error_evaluations, description_similar, eval_calls,
                   error_type_metrics, file_results, overall_result>>

\* _evaluate_single_error of a pair without golden error: lines 110-112,
\* 132-138, 78
EvalUnmatched ==
    /\ e_pc = "evaluating"
    /\ ev_pos <= Len(matches)
    /\ matches[ev_pos][2] = None
    /\ error_evaluations' =
          Append(error_evaluations,
                 ErrorEvaluationResult(matches[ev_pos][1], None, FALSE,
                                       None, None))
    /\ ev_pos' = ev_pos + 1
    /\ UNCHANGED <<e_pc, description_similar, eval_calls, error_type_metrics,
                   file_results, overall_result>>
    /\ UNCHANGED matchVars

\* _evaluate_single_error of a matched pair judges the descriptions:
\* lines 114-123
EvalDesc ==
    /\ e_pc = "evaluating"
    /\ ev_pos <= Len(matches)
    /\ matches[ev_pos][2] # None
    /\ \E r \in EngineJudgments :
          /\ IF r.raised
             THEN /\ e_pc' = "aborted"
                  /\ UNCHANGED description_similar
             ELSE /\ e_pc' = "eval_fix"
                  /\ description_similar' = Some(r.value)
          /\ eval_calls' = Append(eval_calls, <<"description", r>>)
    /\ UNCHANGED <<error_evaluations, ev_pos, error_type_metrics,
                   file_results, overall_result>>
    /\ UNCHANGED matchVars

\* error_type_correct left at its initial value
type_correct_never(pred_error, matched_golden) == FALSE

\* error_type_correct of line 116
type_correct(pred_error, matched_golden) ==
    pred_error.error_type = matched_golden.error_type

\* _evaluate_single_error judges the fixes and returns: lines 126-138, 78
EvalFix ==
    /\ e_pc = "eval_fix"
    /\ \E r \in EngineJudgments :
          /\ IF r.raised
             THEN /\ e_pc' = "aborted"
                  /\ UNCHANGED <<error_evaluations, ev_pos>>
             ELSE /\ e_pc' = "evaluating"
                  /\ error_evaluations' =
                        Append(error_evaluations,
                               ErrorEvaluationResult(
                                   matches[ev_pos][1],
                                   matches[ev_pos][2],
                                   type_correct(matches[ev_pos][1],
                                                matches[ev_pos][2][1]),
                                   description_similar,
                                   Some(r.value)))
                  /\ ev_pos' = ev_pos + 1
          /\ eval_calls' = Append(eval_calls, <<"golden_answer", r>>)
    /\ description_similar' = None
    /\ UNCHANGED <<error_type_metrics, file_results, overall_result>>
    /\ UNCHANGED matchVars

\* evaluate_single_file computes the metrics and returns, its caller
\* appends the result, and the locals of the call are gone: lines 81-105,
\* evaluator.py line 82
FinishFile ==
    /\ e_pc = "evaluating"
    /\ ev_pos > Len(matches)
    /\ LET metrics == _calculate_error_type_metrics(predicted_errors,
                                                    golden_errors)
       IN  IF metrics.raised
           THEN /\ e_pc' = "aborted"
                /\ UNCHANGED file_results
           ELSE /\ e_pc' = "idle"
                /\ file_results' =
                      Append(file_results,
                             FileEvaluationResult(predicted_errors,
                                                  golden_errors,
                                                  error_evaluations,
                                                  metrics.value))
    /\ error_evaluations' = <<>>
    /\ ev_pos' = 0
    /\ eval_calls' = <<>>
    /\ MatchReset
    /\ UNCHANGED <<description_similar, error_type_metrics, overall_result>>

\* aggregate_results is called with the results so far
Aggregate ==
    /\ e_pc = "idle"
    /\ LET r == aggregate_results(file_results)
       IN  IF r.raised
           THEN /\ e_pc' = "aborted"
                /\ UNCHANGED overall_result
           ELSE /\ e_pc' = "aggregated"
                /\ overall_result' = Some(r.value)
    /\ UNCHANGED <<error_evaluations, ev_pos, description_similar,
                   eval_calls, error_type_metrics, file_results>>
    /\ UNCHANGED matchVars

----------------------------------------------------------------------------
(* The parts a specification leaves out *)

DriverIdle ==
    /\ d_pc = "off"
    /\ openai_api_key = <<>>
    /\ result_files = <<>>
    /\ file_pos = 0
    /\ file_log = <<>>
    /\ detailed_result_file = None
    /\ summary_result_file = None

BatchIdle ==
    /\ b_pc = "off"
    /\ text_pairs = <<>>
    /\ batch_results = <<>>
    /\ batch_calls = <<>>

GoldenIdle ==
    /\ g_pc = "off"
    /\ data_root_dir = <<>>
    /\ predicted_results = <<>>
    /\ golden_answer_files = <<>>

InferIdle ==
    /\ p_pc = "off"
    /\ folders = <<>>
    /\ folder_i = 0
    /\ records = <<>>
    /\ records_file = None
    /\ summary_report = None

ConfigIdle ==
    /\ c_pc = "off"
    /\ config_file = None
    /\ heap = <<>>
    /\ _cached_configs = <<>>
    /\ held = <<>>

\* no golden-file discovery, no inference batch, no configuration loader
OthersIdle == GoldenIdle /\ InferIdle /\ ConfigIdle

----------------------------------------------------------------------------
(* Specifications *)

\* one call of evaluate_similarity after another
OracleNext ==
    \/ OracleCall /\ UNCHANGED <<matchVars, engineVars, driverVars, batchVars, otherVars>>
    \/ OracleRespond /\ UNCHANGED <<matchVars, engineVars, driverVars, batchVars, otherVars>>
    \/ OracleTake /\ UNCHANGED <<matchVars, engineVars, driverVars, batchVars, otherVars>>

InitOracle ==
    OracleInit /\ MatchIdle /\ EngineIdle /\ DriverIdle /\ BatchIdle /\ OthersIdle

SpecOracle == InitOracle /\ [][OracleNext]_vars

\* one call of match_errors on any two lists of at most MaxErrs errors,
\* and its steps
MatchNext ==
    \/ /\ \E predicted \in SeqsUpTo(PredictedError, MaxErrs),
             golden \in SeqsUpTo(GoldenError, MaxErrs) :
                MatchEnter(predicted, golden)
       /\ UNCHANGED <<oracleVars, engineVars, driverVars, batchVars, otherVars>>
    \/ BeginPred /\ UNCHANGED <<oracleVars, engineVars, driverVars, batchVars, otherVars>>
    \/ SkipUsed /\ UNCHANGED <<oracleVars, engineVars, driverVars, batchVars, otherVars>>
    \/ ScoreDescOf(MatchJudgments) /\ UNCHANGED <<oracleVars, engineVars, driverVars, batchVars, otherVars>>
    \/ ScoreFixOf(MatchJudgments) /\ UNCHANGED <<oracleVars, engineVars, driverVars, batchVars, otherVars>>
    \/ ScoreReturn /\ UNCHANGED <<oracleVars, engineVars, driverVars, batchVars, otherVars>>
    \/ EndPred /\ UNCHANGED <<oracleVars, engineVars, driverVars, batchVars, otherVars>>
    \/ MatchReturn /\ UNCHANGED <<oracleVars, engineVars, driverVars, batchVars, otherVars>>

InitMatch ==
    OracleIdle /\ MatchIdle /\ EngineIdle /\ DriverIdle /\ BatchIdle /\ OthersIdle

SpecMatch == InitMatch /\ [][MatchNext]_vars

\* files are evaluated one after another and the results then aggregated
EngineNext ==
    \/ /\ \E predicted \in SeqsUpTo(PredictedError, MaxErrs),
             golden \in SeqsUpTo(GoldenError, MaxErrs) :
                EvaluateFile(predicted, golden)
       /\ UNCHANGED <<oracleVars, driverVars, batchVars, otherVars>>
    \/ BeginPred /\ UNCHANGED <<oracleVars, engineVars, driverVars, batchVars, otherVars>>
    \/ SkipUsed /\ UNCHANGED <<oracleVars, engineVars, driverVars, batchVars, otherVars>>
    \/ ScoreDescOf(EngineJudgments) /\ UNCHANGED <<oracleVars, engineVars, driverVars, batchVars, otherVars>>
    \/ ScoreFixOf(EngineJudgments) /\ UNCHANGED <<oracleVars, engineVars, driverVars, batchVars, otherVars>>
    \/ ScoreReturn /\ UNCHANGED <<oracleVars, engineVars, driverVars, batchVars, otherVars>>
    \/ EndPred /\ UNCHANGED <<oracleVars, engineVars, driverVars, batchVars, otherVars>>
    \/ MatchReturn /\ UNCHANGED <<oracleVars, engineVars, driverVars, batchVars, otherVars>>
    \/ BeginEvaluate /\ UNCHANGED <<oracleVars, driverVars, batchVars, otherVars>>
    \/ EvalUnmatched /\ UNCHANGED <<oracleVars, driverVars, batchVars, otherVars>>
    \/ EvalDesc /\ UNCHANGED <<oracleVars, driverVars, batchVars, otherVars>>
    \/ EvalFix /\ UNCHANGED <<oracleVars, driverVars, batchVars, otherVars>>
    \/ FinishFile /\ UNCHANGED <<oracleVars, driverVars, batchVars, otherVars>>
    \/ Aggregate /\ UNCHANGED <<oracleVars, driverVars, batchVars, otherVars>>

InitEngine ==
    OracleIdle /\ MatchIdle /\ EngineInit /\ DriverIdle /\ BatchIdle /\ OthersIdle

Spec == InitEngine /\ [][EngineNext]_vars

\* the categories of the lists the category-set metrics are computed of
TypeCategories == {"E1", "E2", "E3", "E4", "E5"}

\* _calculate_error_type_metrics is called on two lists of errors:
\* evaluation_engine.py lines 140-164
CalculateMetrics(predicted, golden) ==
    /\ e_pc = "off"
    /\ e_pc' = "measured"
    /\ predicted_errors' = predicted
    /\ golden_errors' = golden
    /\ error_type_metrics' = Some(_calculate_error_type_metrics(predicted, golden))
    /\ UNCHANGED <<m_pc, matches, used_golden_indices, pred_i, gold_i,
                   best_match_idx, best_score, score, desc_similarity,
                   golden_similarity, matched_idx, oracle_calls, in_range,
                   cand_scores>>
    /\ UNCHANGED <<error_evaluations, ev_pos, description_similar,
                   eval_calls, file_results, overall_result>>

\* one call of _calculate_error_type_metrics on any two lists of at most
\* MaxTypeErrs errors
MetricsNext ==
    \/ /\ e_pc = "off"
       /\ \E predicted \in SeqsUpTo([error_type : TypeCategories,
                                     error_description : {"d"},
                                     fix_answer : {"f"}], MaxTypeErrs),
             golden \in SeqsUpTo([error_type : TypeCategories,
                                  error_description : {"g"},
                                  golden_answer : {"a"}], MaxTypeErrs) :
                CalculateMetrics(predicted, golden)
       /\ UNCHANGED <<oracleVars, driverVars, batchVars, otherVars>>

InitMetrics ==
    OracleIdle /\ MatchIdle /\ EngineIdle /\ DriverIdle /\ BatchIdle /\ OthersIdle

SpecMetrics == InitMetrics /\ [][MetricsNext]_vars

\* _evaluate_single_error alone, on the pairs of any list of at most MaxErrs
\* pairs, whether match_errors can return that list or not
EvalCall ==
    /\ e_pc = "idle"
    /\ \E pairs \in SeqsUpTo(PredictedError
                                \X ({None} \cup {Some(g) : g \in GoldenError}),
                             MaxErrs) :
          matches' = pairs
    /\ e_pc' = "evaluating"
    /\ ev_pos' = 1
    /\ UNCHANGED <<m_pc, predicted_errors, golden_errors,
                   used_golden_indices, pred_i, gold_i, best_match_idx,
                   best_score, score, desc_similarity, golden_similarity,
                   matched_idx, oracle_calls, in_range, cand_scores>>
    /\ UNCHANGED <<error_evaluations, description_similar, eval_calls,
                   error_type_metrics, file_results, overall_result>>

EvalNext ==
    \/ EvalCall /\ UNCHANGED <<oracleVars, driverVars, batchVars, otherVars>>
    \/ EvalUnmatched /\ UNCHANGED <<oracleVars, driverVars, batchVars, otherVars>>
    \/ EvalDesc /\ UNCHANGED <<oracleVars, driverVars, batchVars, otherVars>>
    \/ EvalFix /\ UNCHANGED <<oracleVars, driverVars, batchVars, otherVars>>

SpecEval == InitEngine /\ [][EvalNext]_vars

\* the lists of pairs match_errors can return for two lists, the service
\* answering any confidence: each predicted error, in order, with None or
\* with a golden error that no other pair holds (error_matcher.py lines
\* 34-61)
pairings(predicted, golden) ==
    {[k \in 1..Len(predicted) |->
         <<predicted[k],
           IF choice[k] = 0 THEN None ELSE Some(golden[choice[k]])>>] :
        choice \in {c \in [1..Len(predicted) -> 0..Len(golden)] :
                       \A i, j \in 1..Len(predicted) :
                           (i # j /\ c[i] # 0) => c[i] # c[j]}}

\* evaluate_single_file is called on any two lists of at most MaxErrs
\* errors and match_errors returns one of its pairings: lines 65-76
EvaluatePaired ==
    /\ e_pc = "idle"
    /\ Len(file_results) < MaxFiles
    /\ \E predicted \in SeqsUpTo(PredictedError, MaxErrs),
          golden \in SeqsUpTo(GoldenError, MaxErrs) :
             /\ predicted_errors' = predicted
             /\ golden_errors' = golden
             /\ \E pairs \in pairings(predicted, golden) : matches' = pairs
    /\ e_pc' = "evaluating"
    /\ ev_pos' = 1
    /\ UNCHANGED <<m_pc, used_golden_indices, pred_i, gold_i, best_match_idx,
                   best_score, score, desc_similarity, golden_similarity,
                   matched_idx, oracle_calls, in_range, cand_scores>>
    /\ UNCHANGED <<error_evaluations, description_similar, eval_calls,
                   error_type_metrics, file_results, overall_result>>

\* evaluate_single_file on documents matched in any way, then
\* aggregate_results
FilesNext ==
    \/ EvaluatePaired /\ UNCHANGED <<oracleVars, driverVars, batchVars, otherVars>>
    \/ EvalUnmatched /\ UNCHANGED <<oracleVars, driverVars, batchVars, otherVars>>
    \/ EvalDesc /\ UNCHANGED <<oracleVars, driverVars, batchVars, otherVars>>
    \/ EvalFix /\ UNCHANGED <<oracleVars, driverVars, batchVars, otherVars>>
    \/ FinishFile /\ UNCHANGED <<oracleVars, driverVars, batchVars, otherVars>>
    \/ Aggregate /\ UNCHANGED <<oracleVars, driverVars, batchVars, otherVars>>

SpecFiles == InitEngine /\ [][FilesNext]_vars

\* one call of evaluate_single_file up to the end of its loop over the
\* pairs (lines 65-78), the matcher run against every judgment of
\* MatchJudgments
PairsNext ==
    \/ /\ \E predicted \in SeqsUpTo(PredictedError, MaxErrs),
             golden \in SeqsUpTo(GoldenError, MaxErrs) :
                EvaluateFile(predicted, golden)
       /\ UNCHANGED <<oracleVars, driverVars, batchVars, otherVars>>
    \/ BeginPred /\ UNCHANGED <<oracleVars, engineVars, driverVars, batchVars, otherVars>>
    \/ SkipUsed /\ UNCHANGED <<oracleVars, engineVars, driverVars, batchVars, otherVars>>
    \/ ScoreDescOf(MatchJudgments) /\ UNCHANGED <<oracleVars, engineVars, driverVars, batchVars, otherVars>>
    \/ ScoreFixOf(MatchJudgments) /\ UNCHANGED <<oracleVars, engineVars, driverVars, batchVars, otherVars>>
    \/ ScoreReturn /\ UNCHANGED <<oracleVars, engineVars, driverVars, batchVars, otherVars>>
    \/ EndPred /\ UNCHANGED <<oracleVars, engineVars, driverVars, batchVars, otherVars>>
    \/ MatchReturn /\ UNCHANGED <<oracleVars, engineVars, driverVars, batchVars, otherVars>>
    \/ BeginEvaluate /\ UNCHANGED <<oracleVars, driverVars, batchVars, otherVars>>
    \/ EvalUnmatched /\ UNCHANGED <<oracleVars, driverVars, batchVars, otherVars>>
    \/ EvalDesc /\ UNCHANGED <<oracleVars, driverVars, batchVars, otherVars>>
    \/ EvalFix /\ UNCHANGED <<oracleVars, driverVars, batchVars, otherVars>>

SpecPairs == InitEngine /\ [][PairsNext]_vars

----------------------------------------------------------------------------
(* The evaluator: evaluator.py, config.py *)

\* the errors of a result file and of a golden answer file, as records
RawPredicted(c) == [error_type |-> c, error_description |-> "d", fix_answer |-> "f"]

RawGolden(c) == [error_type |-> c, error_description |-> "g", golden_answer |-> "a"]

\* a record without its texts
RawBroken(c) == [error_type |-> c]

\* a result file with its 'errors' and the 'errors' of the golden answer
\* file found for it, None when none is found
ResultFile(errors, golden) == [errors |-> errors, golden |-> golden]

\* the result files met: a malformed one, one without golden answer, one
\* with a malformed golden answer, and three that can be evaluated
FileKinds ==
    {ResultFile(<<RawPredicted("E1"), RawBroken("E2")>>, Some(<<RawGolden("E1")>>)),
     ResultFile(<<RawPredicted("E1")>>, None),
     ResultFile(<<RawPredicted("E1")>>, Some(<<RawBroken("E1")>>)),
     ResultFile(<<RawPredicted("E1"), RawPredicted("E1")>>, Some(<<RawGolden("E1")>>)),
     ResultFile(<<RawPredicted("E2")>>, Some(<<>>)),
     ResultFile(<<>>, Some(<<RawGolden("E1"), RawGolden("E2")>>))}

\* PredictedError(**error_data) and GoldenError(**error_data) raise when a
\* field is missing
has_fields(error_data, fields) == fields \subseteq DOMAIN error_data

\* load_predicted_result keeping only the well-formed records
load_predicted_lenient(data) ==
    Return(SelectSeq(data, LAMBDA r :
        has_fields(r, {"error_type", "error_description", "fix_answer"})))

load_predicted_result(data) ==
    IF \A k \in 1..Len(data) :
          has_fields(data[k], {"error_type", "error_description", "fix_answer"})
    THEN Return(data)
    ELSE Raise("ValidationError")

load_golden_answer(data) ==
    IF \A k \in 1..Len(data) :
          has_fields(data[k], {"error_type", "error_description", "golden_answer"})
    THEN Return(data)
    ELSE Raise("ValidationError")

\* OpenAI(api_key=...): whether the client library takes the key is the
\* library's business when the key is empty
client_accepts(api_key) == IF api_key = <<>> THEN {TRUE, FALSE} ELSE {TRUE}

\* OPENAI_API_KEY is not set (the key is "") or set: config.py line 27
DriverInit ==
    /\ d_pc = "new"
    /\ openai_api_key \in {<<>>, <<"s", "k">>}
    /\ result_files = <<>>
    /\ file_pos = 0
    /\ file_log = <<>>
    /\ detailed_result_file = None
    /\ summary_result_file = None

\* Evaluator.__init__ down to TextSimilarityEvaluator.__init__: Config() is
\* built and the client is made of its key; validate() is not called
Construct ==
    /\ d_pc = "new"
    /\ \E accepted \in client_accepts(openai_api_key) :
          d_pc' = IF accepted THEN "ready" ELSE "failed"
    /\ UNCHANGED <<openai_api_key, result_files, file_pos, file_log,
                   detailed_result_file, summary_result_file>>

\* run_evaluation finds the result files: lines 47-55
StartRun ==
    /\ d_pc = "ready"
    /\ \E files \in SeqsUpTo(FileKinds, MaxResultFiles) : result_files' = files
    /\ file_pos' = 1
    /\ d_pc' = "loop"
    /\ UNCHANGED <<openai_api_key, file_log, detailed_result_file,
                   summary_result_file>>

\* the loop goes on to the next file, having printed why: lines 59, 69-71,
\* 92-94
skip_file(why) ==
    /\ file_pos' = file_pos + 1
    /\ file_log' = Append(file_log, why)
    /\ d_pc' = "loop"
    /\ UNCHANGED <<openai_api_key, result_files, detailed_result_file,
                   summary_result_file>>

\* load_predicted_result raises: lines 64, 92-94
LoadFails ==
    /\ d_pc = "loop" /\ file_pos <= Len(result_files)
    /\ load_predicted_result(result_files[file_pos].errors).raised
    /\ skip_file("error")
    /\ UNCHANGED <<matchVars, engineVars>>

\* no golden answer file is found: lines 67-71
GoldenMissing ==
    /\ d_pc = "loop" /\ file_pos <= Len(result_files)
    /\ ~load_predicted_result(result_files[file_pos].errors).raised
    /\ result_files[file_pos].golden = None
    /\ skip_file("not found")
    /\ UNCHANGED <<matchVars, engineVars>>

\* load_golden_answer raises: lines 74, 92-94
GoldenLoadFails ==
    /\ d_pc = "loop" /\ file_pos <= Len(result_files)
    /\ ~load_predicted_result(result_files[file_pos].errors).raised
    /\ result_files[file_pos].golden # None
    /\ load_golden_answer(result_files[file_pos].golden[1]).raised
    /\ skip_file("error")
    /\ UNCHANGED <<matchVars, engineVars>>

\* both files are loaded and evaluate_single_file is called: lines 64-80
LoadAndEvaluate ==
    /\ d_pc = "loop" /\ file_pos <= Len(result_files)
    /\ ~load_predicted_result(result_files[file_pos].errors).raised
    /\ result_files[file_pos].golden # None
    /\ ~load_golden_answer(result_files[file_pos].golden[1]).raised
    /\ EvaluateFile(load_predicted_result(result_files[file_pos].errors).value,
                    load_golden_answer(result_files[file_pos].golden[1]).value)
    /\ d_pc' = "file"
    /\ UNCHANGED <<openai_api_key, result_files, file_pos, file_log,
                   detailed_result_file, summary_result_file>>

\* evaluate_single_file returns and its result is appended: lines 77-90
FileDone ==
    /\ d_pc = "file"
    /\ FinishFile
    /\ IF e_pc' = "idle" THEN skip_file("completed") ELSE skip_file("error")

\* an exception leaves evaluate_single_file; its locals are gone and
\* nothing is appended: lines 92-94
EvaluationRaises ==
    /\ d_pc = "file"
    /\ e_pc \in {"matching", "evaluating", "eval_fix"}
    /\ MatchReset
    /\ e_pc' = "idle"
    /\ error_evaluations' = <<>>
    /\ ev_pos' = 0
    /\ eval_calls' = <<>>
    /\ UNCHANGED <<description_similar, error_type_metrics, file_results,
                   overall_result>>
    /\ skip_file("error")

\* the loop is over and aggregate_results is called: line 97
AggregateRun ==
    /\ d_pc = "loop" /\ file_pos > Len(result_files)
    /\ Aggregate
    /\ d_pc' = IF e_pc' = "aggregated" THEN "save" ELSE "failed"
    /\ UNCHANGED <<openai_api_key, result_files, file_pos, file_log,
                   detailed_result_file, summary_result_file>>

\* a dump that leaves the per-file results out
model_dump_without_files(result) ==
    [total_files |-> result.total_files,
     overall_error_type_metrics |-> result.overall_error_type_metrics,
     overall_description_accuracy |-> result.overall_description_accuracy,
     overall_golden_answer_accuracy |-> result.overall_golden_answer_accuracy,
     per_file_results |-> <<>>,
     error_type_breakdown |-> result.error_type_breakdown]

\* overall_result.model_dump(): lines 181-183
model_dump(result) ==
    [total_files |-> result.total_files,
     overall_error_type_metrics |-> result.overall_error_type_metrics,
     overall_description_accuracy |-> result.overall_description_accuracy,
     overall_golden_answer_accuracy |-> result.overall_golden_answer_accuracy,
     per_file_results |-> result.per_file_results,
     error_type_breakdown |-> result.error_type_breakdown]

\* the three ratios the summary keeps of an ErrorTypeMetrics
summary_metrics(metrics) ==
    [precision |-> metrics.precision, recall |-> metrics.recall,
     f1_score |-> metrics.f1]

\* summary_result: lines 186-205
summary_of(result) ==
    [total_files |-> result.total_files,
     overall_metrics |->
        [error_type |-> summary_metrics(result.overall_error_type_metrics),
         description_accuracy |-> result.overall_description_accuracy,
         fix_solution_accuracy |-> result.overall_golden_answer_accuracy],
     error_type_breakdown |->
        [error_type \in DOMAIN result.error_type_breakdown |->
            summary_metrics(result.error_type_breakdown[error_type])]]

\* _save_evaluation_results writes the two files and run_evaluation
\* returns: lines 100-125, 177-212
SaveResults ==
    /\ d_pc = "save"
    /\ detailed_result_file' = Some(model_dump(overall_result[1]))
    /\ summary_result_file' = Some(summary_of(overall_result[1]))
    /\ d_pc' = "completed"
    /\ UNCHANGED <<openai_api_key, result_files, file_pos, file_log>>
    /\ UNCHANGED <<matchVars, engineVars>>

DriverNext ==
    \/ Construct /\ UNCHANGED <<oracleVars, matchVars, engineVars, batchVars, otherVars>>
    \/ StartRun /\ UNCHANGED <<oracleVars, matchVars, engineVars, batchVars, otherVars>>
    \/ LoadFails /\ UNCHANGED <<oracleVars, batchVars, otherVars>>
    \/ GoldenMissing /\ UNCHANGED <<oracleVars, batchVars, otherVars>>
    \/ GoldenLoadFails /\ UNCHANGED <<oracleVars, batchVars, otherVars>>
    \/ LoadAndEvaluate /\ UNCHANGED <<oracleVars, batchVars, otherVars>>
    \/ BeginPred /\ UNCHANGED <<oracleVars, engineVars, driverVars, batchVars, otherVars>>
    \/ SkipUsed /\ UNCHANGED <<oracleVars, engineVars, driverVars, batchVars, otherVars>>
    \/ ScoreDescOf(EngineJudgments) /\ UNCHANGED <<oracleVars, engineVars, driverVars, batchVars, otherVars>>
    \/ ScoreFixOf(EngineJudgments) /\ UNCHANGED <<oracleVars, engineVars, driverVars, batchVars, otherVars>>
    \/ ScoreReturn /\ UNCHANGED <<oracleVars, engineVars, driverVars, batchVars, otherVars>>
    \/ EndPred /\ UNCHANGED <<oracleVars, engineVars, driverVars, batchVars, otherVars>>
    \/ MatchReturn /\ UNCHANGED <<oracleVars, engineVars, driverVars, batchVars, otherVars>>
    \/ BeginEvaluate /\ UNCHANGED <<oracleVars, driverVars, batchVars, otherVars>>
    \/ EvalUnmatched /\ UNCHANGED <<oracleVars, driverVars, batchVars, otherVars>>
    \/ EvalDesc /\ UNCHANGED <<oracleVars, driverVars, batchVars, otherVars>>
    \/ EvalFix /\ UNCHANGED <<oracleVars, driverVars, batchVars, otherVars>>
    \/ FileDone /\ UNCHANGED <<oracleVars, batchVars, otherVars>>
    \/ EvaluationRaises /\ UNCHANGED <<oracleVars, batchVars, otherVars>>
    \/ AggregateRun /\ UNCHANGED <<oracleVars, batchVars, otherVars>>
    \/ SaveResults /\ UNCHANGED <<oracleVars, batchVars, otherVars>>

InitDriver ==
    OracleIdle /\ MatchIdle /\ EngineInit /\ DriverInit /\ BatchIdle /\ OthersIdle

SpecDriver == InitDriver /\ [][DriverNext]_vars

\* run_evaluation is sequential code that waits for nothing: the step that
\* is due is taken. The return of evaluate_single_file and the call of
\* aggregate_results are named by the positions they leave and reach.
SpecDriverLive ==
    /\ InitDriver
    /\ [][DriverNext]_vars
    /\ WF_vars(\/ StartRun /\ UNCHANGED <<oracleVars, matchVars, engineVars, batchVars, otherVars>>
               \/ LoadFails /\ UNCHANGED <<oracleVars, batchVars, otherVars>>
               \/ GoldenMissing /\ UNCHANGED <<oracleVars, batchVars, otherVars>>
               \/ GoldenLoadFails /\ UNCHANGED <<oracleVars, batchVars, otherVars>>
               \/ LoadAndEvaluate /\ UNCHANGED <<oracleVars, batchVars, otherVars>>
               \/ BeginPred /\ UNCHANGED <<oracleVars, engineVars, driverVars, batchVars, otherVars>>
               \/ SkipUsed /\ UNCHANGED <<oracleVars, engineVars, driverVars, batchVars, otherVars>>
               \/ ScoreDescOf(EngineJudgments) /\ UNCHANGED <<oracleVars, engineVars, driverVars, batchVars, otherVars>>
               \/ ScoreFixOf(EngineJudgments) /\ UNCHANGED <<oracleVars, engineVars, driverVars, batchVars, otherVars>>
               \/ ScoreReturn /\ UNCHANGED <<oracleVars, engineVars, driverVars, batchVars, otherVars>>
               \/ EndPred /\ UNCHANGED <<oracleVars, engineVars, driverVars, batchVars, otherVars>>
               \/ MatchReturn /\ UNCHANGED <<oracleVars, engineVars, driverVars, batchVars, otherVars>>
               \/ BeginEvaluate /\ UNCHANGED <<oracleVars, driverVars, batchVars, otherVars>>
               \/ EvalUnmatched /\ UNCHANGED <<oracleVars, driverVars, batchVars, otherVars>>
               \/ EvalDesc /\ UNCHANGED <<oracleVars, driverVars, batchVars, otherVars>>
               \/ EvalFix /\ UNCHANGED <<oracleVars, driverVars, batchVars, otherVars>>
               \/ SaveResults /\ UNCHANGED <<oracleVars, batchVars, otherVars>>)
    /\ WF_d_pc(/\ d_pc = "file" /\ e_pc = "evaluating" /\ ev_pos > Len(matches)
               /\ d_pc' = "loop")
    /\ WF_d_pc(/\ d_pc = "loop" /\ file_pos > Len(result_files)
               /\ d_pc' = "save")

----------------------------------------------------------------------------
(* The batch variant: text_similarity_evaluator.py lines 143-153 *)

BatchInit ==
    /\ b_pc = "new"
    /\ text_pairs = <<>>
    /\ batch_results = <<>>
    /\ batch_calls = <<>>

\* batch_evaluate_similarity is entered with pairs of the texts a and b:
\* results = []
BatchEnter ==
    /\ b_pc = "new"
    /\ \E pairs \in SeqsUpTo({<<"a">>, <<"b">>} \X {<<"a">>, <<"b">>},
                             MaxPairs) :
          text_pairs' = pairs
    /\ batch_results' = <<>>
    /\ batch_calls' = <<>>
    /\ b_pc' = "loop"

\* results with the result of the last call put first
results_prepend(results, result) == <<result>> \o results

\* results.append(result): line 150
results_append(results, result) == Append(results, result)

\* one turn of the loop: evaluate_similarity is called with the next pair,
\* completes with a judgment whatever the service does, and the judgment is
\* appended: lines 148-150
BatchStep ==
    /\ b_pc = "loop"
    /\ Len(batch_results) < Len(text_pairs)
    /\ \E r \in MatchJudgments :
          LET pair == text_pairs[Len(batch_results) + 1]
          IN  /\ batch_calls' = Append(batch_calls,
                                       [text1 |-> pair[1], text2 |-> pair[2],
                                        result |-> r.value])
              /\ batch_results' = results_append(batch_results, r.value)
    /\ UNCHANGED <<b_pc, text_pairs>>

\* the loop is over: return results, line 152
BatchReturn ==
    /\ b_pc = "loop"
    /\ Len(batch_results) >= Len(text_pairs)
    /\ b_pc' = "done"
    /\ UNCHANGED <<text_pairs, batch_results, batch_calls>>

BatchNext ==
    \/ BatchEnter /\ UNCHANGED <<oracleVars, matchVars, engineVars, driverVars, otherVars>>
    \/ BatchStep /\ UNCHANGED <<oracleVars, matchVars, engineVars, driverVars, otherVars>>
    \/ BatchReturn /\ UNCHANGED <<oracleVars, matchVars, engineVars, driverVars, otherVars>>

InitBatch ==
    OracleIdle /\ MatchIdle /\ EngineIdle /\ DriverIdle /\ BatchInit /\ OthersIdle

SpecBatch == InitBatch /\ [][BatchNext]_vars

----------------------------------------------------------------------------
(* Golden-file discovery: evaluator.py *)

\* the folder names and the readme_name values: "ab.m", "ab", "abc", "a"
\* and "c"
FolderNames ==
    {<<"a", "b", ".", "m">>, <<"a", "b">>, <<"a", "b", "c">>, <<"a">>, <<"c">>}

\* the entries of the repo folders: repo_folder.name, readme_folder.name,
\* readme_folder.is_dir() and (readme_folder / "README.json").exists()
FolderEntry ==
    {e \in [repo : {"A", "B"}, name : FolderNames, is_dir : BOOLEAN,
            json_exists : BOOLEAN] : e.json_exists => e.is_dir}

\* the data directories of at most MaxEntries entries, in the order the
\* loops of lines 149 and 154 meet them: no two entries of a repo folder
\* have the same name, and the entries of a repo folder come together
DataDirs ==
    {d \in SeqsUpTo(FolderEntry, MaxEntries) :
        /\ \A i, j \in 1..Len(d) :
              (i # j /\ d[i].repo = d[j].repo) => d[i].name # d[j].name
        /\ \A i, j, k \in 1..Len(d) :
              (i < j /\ j < k /\ d[i].repo = d[k].repo)
                 => d[j].repo = d[i].repo}

\* the repo_name and readme_name of a predicted result
PredictedResult == [repo_name : {"A", "B"},
                    readme_name : {<<"a", "b", ".", "m">>, <<"a", "b">>}]

\* readme_name.rsplit('.', 1)[0] if '.' in readme_name else readme_name
readme_base_name(readme_name) ==
    IF contains(<<".">>, readme_name)
    THEN slice(readme_name, 0, rfind(readme_name, "."))
    ELSE readme_name

\* is_match with the two equalities only
is_match_equal_only(name, readme_name) ==
    \/ name = readme_name
    \/ name = readme_base_name(readme_name)

\* is_match of lines 162-167
is_match(name, readme_name) ==
    \/ name = readme_name
    \/ name = readme_base_name(readme_name)
    \/ contains(readme_base_name(readme_name), name)
    \/ contains(name, readme_base_name(readme_name))

\* _find_golden_answer_file: the README.json of the first entry that is a
\* directory, matches and holds the file, as repo and folder; None when
\* the loops end
_find_golden_answer_file(dir, readme_name) ==
    LET returns == {k \in 1..Len(dir) :
                       /\ dir[k].is_dir
                       /\ is_match(dir[k].name, readme_name)
                       /\ dir[k].json_exists}
    IN  IF returns = {} THEN None
        ELSE LET k == CHOOSE k \in returns : \A h \in returns : k <= h
             IN  Some([repo |-> dir[k].repo, folder |-> dir[k].name])

\* the discovery looking only into the repo folder named by the result
golden_in_own_repo(dir, predicted_result) ==
    LET own(e) == e.repo = predicted_result.repo_name
    IN  _find_golden_answer_file(SelectSeq(dir, own),
                                 predicted_result.readme_name)

\* the call of line 67
golden_answer_file_of(dir, predicted_result) ==
    _find_golden_answer_file(dir, predicted_result.readme_name)

\* run_evaluation has a data directory and predicted results to pair
GoldenStart ==
    /\ g_pc = "idle"
    /\ g_pc' = "loop"
    /\ \E dir \in DataDirs : data_root_dir' = dir
    /\ \E results \in SeqsUpTo(PredictedResult, MaxResults) :
          predicted_results' = results
    /\ UNCHANGED golden_answer_files

\* the golden answer file of the next predicted result is looked for:
\* lines 64-71
FindGolden ==
    /\ g_pc = "loop"
    /\ predicted_results # <<>>
    /\ LET predicted_result == Head(predicted_results)
       IN  golden_answer_files' =
              Append(golden_answer_files,
                     [repo_name |-> predicted_result.repo_name,
                      readme_name |-> predicted_result.readme_name,
                      golden_answer_file |->
                          golden_answer_file_of(data_root_dir,
                                                predicted_result)])
    /\ predicted_results' = Tail(predicted_results)
    /\ UNCHANGED <<g_pc, data_root_dir>>

GoldenNext ==
    \/ GoldenStart /\ UNCHANGED <<oracleVars, matchVars, engineVars, driverVars, batchVars, inferVars, configVars>>
    \/ FindGolden /\ UNCHANGED <<oracleVars, matchVars, engineVars, driverVars, batchVars, inferVars, configVars>>

InitGolden ==
    /\ OracleIdle /\ MatchIdle /\ EngineIdle /\ DriverIdle /\ BatchIdle
    /\ g_pc = "idle"
    /\ data_root_dir = <<>>
    /\ predicted_results = <<>>
    /\ golden_answer_files = <<>>
    /\ InferIdle /\ ConfigIdle

SpecGolden == InitGolden /\ [][GoldenNext]_vars

----------------------------------------------------------------------------
(* The inference batch: environment_processor.py and output_manager.py *)

\* what befalls the processing of a folder: an exception inside the try of
\* process_single_readme (reading the data, no client, the analysis, the
\* saving of the result, the making of the record), an analysis returning
\* None, success with the record written, success with the write of the
\* record failing
Fates == {"raises", "no_result", "saved", "write_fails"}

\* the fields of a ProcessingRecord that are read: data_models.py
ProcessingRecord(readme_name, success, error_message) ==
    [readme_name |-> readme_name, success |-> success,
     error_message |-> error_message]

_create_failed_record(readme_name, error_message) ==
    ProcessingRecord(readme_name, FALSE, Some(error_message))

\* the record process_single_readme returns for a folder
process_single_readme(folder) ==
    CASE folder.fate = "raises" ->
            _create_failed_record(folder.name, "str(e)")
      [] folder.fate = "no_result" ->
            _create_failed_record(folder.name, "Analysis failed")
      [] OTHER -> ProcessingRecord(folder.name, TRUE, None)

\* processing_records.jsonl after save_processing_record appended a line
save_processing_record(file, record) ==
    IF file = None THEN Some(<<record>>) ELSE Some(Append(file[1], record))

\* the records file after a folder, every record handed to
\* save_processing_record
file_after_saving_all(file, folder) ==
    IF folder.fate = "write_fails" THEN file
    ELSE save_processing_record(file, process_single_readme(folder))

\* the records file after process_single_readme of a folder: only line
\* 110 writes, and its exceptions are swallowed
file_after(file, folder) ==
    IF folder.fate = "saved"
    THEN save_processing_record(file, process_single_readme(folder))
    ELSE file

_calculate_basic_statistics(lines) ==
    LET total_repos == Len(lines)
        successful_repos ==
            Cardinality({k \in 1..Len(lines) : lines[k].success})
    IN  [total_repositories |-> total_repos,
         successful_processing |-> successful_repos,
         failed_processing |-> total_repos - successful_repos]

\* process_batch is called: lines 138-151; the folders are those left by
\* the sampling, and the records file holds what earlier batches wrote
ProcessBatch ==
    /\ p_pc \in {"idle", "done"}
    /\ records_file # None => Len(records_file[1]) < MaxFolders
    /\ \E fs \in SeqsUpTo(Fates, MaxFolders) :
          /\ folders' = [k \in 1..Len(fs) |-> [name |-> k, fate |-> fs[k]]]
          /\ IF fs = <<>>
             THEN p_pc' = "done" /\ folder_i' = 0
             ELSE p_pc' = "loop" /\ folder_i' = 1
    /\ records' = <<>>
    /\ UNCHANGED <<records_file, summary_report>>

\* one turn of the loop: lines 152-157
ProcessFolder ==
    /\ p_pc = "loop"
    /\ folder_i <= Len(folders)
    /\ records' = Append(records, process_single_readme(folders[folder_i]))
    /\ records_file' = file_after(records_file, folders[folder_i])
    /\ folder_i' = folder_i + 1
    /\ UNCHANGED <<p_pc, folders, summary_report>>

\* generate_summary_report and the return: lines 159-163; the report is
\* not written when there is no records file or when writing it raises
GenerateSummary ==
    /\ p_pc = "loop"
    /\ folder_i > Len(folders)
    /\ p_pc' = "done"
    /\ \/ /\ records_file # None
          /\ summary_report' =
                Some(_calculate_basic_statistics(records_file[1]))
       \/ UNCHANGED summary_report
    /\ UNCHANGED <<folders, folder_i, records, records_file>>

InferNext ==
    \/ ProcessBatch /\ UNCHANGED <<oracleVars, matchVars, engineVars, driverVars, batchVars, goldenVars, configVars>>
    \/ ProcessFolder /\ UNCHANGED <<oracleVars, matchVars, engineVars, driverVars, batchVars, goldenVars, configVars>>
    \/ GenerateSummary /\ UNCHANGED <<oracleVars, matchVars, engineVars, driverVars, batchVars, goldenVars, configVars>>

InitInfer ==
    /\ OracleIdle /\ MatchIdle /\ EngineIdle /\ DriverIdle /\ BatchIdle
    /\ GoldenIdle
    /\ p_pc = "idle"
    /\ folders = <<>>
    /\ folder_i = 0
    /\ records = <<>>
    /\ records_file = None
    /\ summary_report = None
    /\ ConfigIdle

SpecInfer == InitInfer /\ [][InferNext]_vars

----------------------------------------------------------------------------
(* The configuration loader: config_loader.py *)

\* A configuration is a dictionary of sections, each section a nested
\* dictionary; of a section the model keeps one entry ('data_root_dir' of
\* 'data', 'output_dir' of 'output').  A dictionary object maps its keys to
\* the identities of the nested dictionaries, and heap maps an identity to
\* the value of the entry of that nested dictionary: two dictionaries that
\* map a key to the same identity share the nested dictionary.

ConfigTypes == {"llm", "agent"}

Sections == {"data", "output"}

\* the values a configuration file gives an entry: a plain string and a
\* reference to an environment variable that is set
FileValues == {"./benchmark_data", "${DATA}"}

\* replace_env_vars of a string, DATA being set to "/env": lines 70-82
replace_env_vars(obj) == IF obj = "${DATA}" THEN "/env" ELSE obj

\* the entries _get_default_config gives: lines 89-201
default_value == "./default"

\* dict.copy(): a new dictionary of the same keys, each with the same
\* nested dictionary
dict_copy(config) == [k \in DOMAIN config |-> config[k]]

\* new nested dictionaries of the given values, one for each section,
\* after the objects of the heap
fresh_config(values) ==
    [config |-> [k \in Sections |->
                    Len(heap) + (IF k = "data" THEN 1 ELSE 2)],
     heap |-> heap \o <<values["data"], values["output"]>>]

\* what a caller reads in a dictionary it holds
values_of(config, objects) == [k \in DOMAIN config |-> objects[config[k]]]

\* the ConfigLoader is constructed with an empty cache: lines 28-30
ConfigInit ==
    /\ c_pc = "on"
    /\ config_file \in [ConfigTypes -> {None} \cup
                           {Some(c) : c \in [Sections -> FileValues]}]
    /\ heap = <<>>
    /\ _cached_configs = <<>>
    /\ held = <<>>

\* load_config finds the type in the cache: lines 42-43
LoadCached ==
    /\ Len(held) < MaxHeld
    /\ \E config_type \in DOMAIN _cached_configs :
          held' = Append(held,
                     [config_type |-> config_type,
                      source |-> "cache",
                      config |-> dict_copy(_cached_configs[config_type]),
                      returned |-> values_of(_cached_configs[config_type],
                                             heap)])
    /\ UNCHANGED <<c_pc, config_file, heap, _cached_configs>>

\* load_config reads the file, substitutes the environment variables,
\* caches a copy and returns the dictionary: lines 45-62
LoadFile ==
    /\ Len(held) < MaxHeld
    /\ \E config_type \in ConfigTypes \ DOMAIN _cached_configs :
          /\ config_file[config_type] # None
          /\ LET loaded == fresh_config(
                     [k \in Sections |->
                         replace_env_vars(config_file[config_type][1][k])])
             IN  /\ heap' = loaded.heap
                 /\ _cached_configs' =
                       [t \in DOMAIN _cached_configs \cup {config_type} |->
                           IF t = config_type THEN dict_copy(loaded.config)
                           ELSE _cached_configs[t]]
                 /\ held' = Append(held,
                              [config_type |-> config_type,
                               source |-> "file",
                               config |-> loaded.config,
                               returned |-> values_of(loaded.config,
                                                      loaded.heap)])
    /\ UNCHANGED <<c_pc, config_file>>

\* load_config finds no file, or fails to read it, and returns the default
\* configuration, which it does not cache: lines 47-49, 64-66
LoadDefault ==
    /\ Len(held) < MaxHeld
    /\ \E config_type \in ConfigTypes \ DOMAIN _cached_configs :
          LET loaded == fresh_config([k \in Sections |-> default_value])
          IN  /\ heap' = loaded.heap
              /\ held' = Append(held,
                           [config_type |-> config_type,
                            source |-> "default",
                            config |-> loaded.config,
                            returned |-> values_of(loaded.config,
                                                   loaded.heap)])
    /\ UNCHANGED <<c_pc, config_file, _cached_configs>>

\* a caller assigns an entry of a section of a dictionary it holds, as
\* config['data']['data_root_dir'] = args.data_dir: run_analysis.py lines
\* 99-115
AssignNested ==
    /\ \E i \in 1..Len(held), k \in Sections :
          /\ heap[held[i].config[k]] # "args"
          /\ heap' = [heap EXCEPT ![held[i].config[k]] = "args"]
    /\ UNCHANGED <<c_pc, config_file, _cached_configs, held>>

\* a caller assigns a section of a dictionary it holds a new dictionary
AssignSection ==
    /\ Len(heap) < MaxObjects
    /\ \E i \in 1..Len(held), k \in Sections :
          /\ heap' = Append(heap, "args")
          /\ held' = [held EXCEPT ![i].config[k] = Len(heap) + 1]
    /\ UNCHANGED <<c_pc, config_file, _cached_configs>>

\* save_config writes a dictionary a caller holds and caches a copy of it:
\* lines 208-224; a run calls save_config or clear_cache once at most
SaveConfig ==
    /\ c_pc = "on"
    /\ \E i \in 1..Len(held), config_type \in ConfigTypes :
          /\ config_file' =
                [config_file EXCEPT
                    ![config_type] = Some(values_of(held[i].config, heap))]
          /\ _cached_configs' =
                [t \in DOMAIN _cached_configs \cup {config_type} |->
                    IF t = config_type THEN dict_copy(held[i].config)
                    ELSE _cached_configs[t]]
    /\ c_pc' = "changed"
    /\ UNCHANGED <<heap, held>>

\* clear_cache: lines 226-229
ClearCache ==
    /\ c_pc = "on"
    /\ _cached_configs # <<>>
    /\ _cached_configs' = <<>>
    /\ c_pc' = "changed"
    /\ UNCHANGED <<config_file, heap, held>>

ConfigNext ==
    \/ LoadCached /\ UNCHANGED <<oracleVars, matchVars, engineVars, driverVars, batchVars, goldenVars, inferVars>>
    \/ LoadFile /\ UNCHANGED <<oracleVars, matchVars, engineVars, driverVars, batchVars, goldenVars, inferVars>>
    \/ LoadDefault /\ UNCHANGED <<oracleVars, matchVars, engineVars, driverVars, batchVars, goldenVars, inferVars>>
    \/ AssignNested /\ UNCHANGED <<oracleVars, matchVars, engineVars, driverVars, batchVars, goldenVars, inferVars>>
    \/ AssignSection /\ UNCHANGED <<oracleVars, matchVars, engineVars, driverVars, batchVars, goldenVars, inferVars>>
    \/ SaveConfig /\ UNCHANGED <<oracleVars, matchVars, engineVars, driverVars, batchVars, goldenVars, inferVars>>
    \/ ClearCache /\ UNCHANGED <<oracleVars, matchVars, engineVars, driverVars, batchVars, goldenVars, inferVars>>

InitConfig ==
    /\ OracleIdle /\ MatchIdle /\ EngineIdle /\ DriverIdle /\ BatchIdle
    /\ GoldenIdle /\ InferIdle
    /\ ConfigInit

SpecConfig == InitConfig /\ [][ConfigNext]_vars

----------------------------------------------------------------------------
(* Properties of match_errors, under SpecMatch *)

\* C1: the matching is injective on the golden side: no two pairs of
\* matches carry the same golden error, a golden error being identified by
\* its position in the golden list, and every pair carries at most one
\* golden error, the one at the position chosen for it.
C1_InjectiveOnGolden ==
    /\ \A i, j \in 1..Len(matched_idx) :
          (i # j /\ matched_idx[i] # None) => matched_idx[i] # matched_idx[j]
    /\ Len(matched_idx) = Len(matches)
    /\ \A i \in 1..Len(matches) :
          IF matched_idx[i] = None THEN matches[i][2] = None
          ELSE /\ matched_idx[i][1] \in 0..(Len(golden_errors) - 1)
               /\ matches[i][2] = <<golden_errors[matched_idx[i][1] + 1]>>

\* two predicted errors of one category met two golden errors of that
\* category and both were matched
C1_Witness ==
    /\ m_pc = "done"
    /\ Len(predicted_errors) = 2 /\ Len(golden_errors) = 2
    /\ \A k \in 1..2 : /\ predicted_errors[k].error_type = "E1"
                       /\ golden_errors[k].error_type = "E1"
    /\ matched_idx = <<Some(0), Some(1)>>

\* C2: match_errors returns one pair per predicted error, the i-th pair
\* carrying the i-th predicted error, whatever the golden list and the
\* judgments; while it runs, matches is that list up to the error at hand.
C2_OnePairPerPredicted ==
    /\ Len(matches) <= Len(predicted_errors)
    /\ \A i \in 1..Len(matches) : matches[i][1] = predicted_errors[i]
    /\ m_pc \in {"inner", "fix", "ret"} => Len(matches) = pred_i - 1
    /\ m_pc = "done" => Len(matches) = Len(predicted_errors)

\* two different predicted errors and no golden error
C2_Witness ==
    /\ m_pc = "done"
    /\ golden_errors = <<>>
    /\ Len(predicted_errors) = 2
    /\ predicted_errors[1] # predicted_errors[2]
    /\ Len(matches) = 2

\* C3: the score is 0.6 for equal categories, plus 0.3 times the confidence
\* of the description judgment if it says similar, plus 0.1 times the
\* confidence of the fix judgment if it says similar (in thousandths, the
\* confidences in tenths); a single pair of equal categories judged
\* (true, 0.9) twice scores 0.96 and is matched.
C3_MatchScoreFormula ==
    /\ m_pc = "ret" =>
          score =
              (IF predicted_errors[pred_i].error_type
                    = golden_errors[gold_i + 1].error_type
               THEN 600 ELSE 0)
              + (IF desc_similarity.is_similar
                 THEN 30 * desc_similarity.confidence ELSE 0)
              + (IF golden_similarity.is_similar
                 THEN 10 * golden_similarity.confidence ELSE 0)
    /\ (/\ m_pc = "ret"
        /\ predicted_errors[pred_i].error_type
              = golden_errors[gold_i + 1].error_type
        /\ desc_similarity.is_similar /\ desc_similarity.confidence = 9
        /\ golden_similarity.is_similar /\ golden_similarity.confidence = 9)
          => score = 960
    /\ (/\ m_pc = "done"
        /\ Len(predicted_errors) = 1 /\ Len(golden_errors) = 1
        /\ score = 960)
          => matches = <<<<predicted_errors[1], <<golden_errors[1]>>>>>>

\* the single pair scored 0.96 and was matched
C3_Witness ==
    /\ m_pc = "done"
    /\ Len(predicted_errors) = 1 /\ Len(golden_errors) = 1
    /\ predicted_errors[1].error_type = golden_errors[1].error_type
    /\ score = 960
    /\ matches[1][2] # None

\* C4: the score lies in [0.0, 1.0], and it is 0.0 when the categories
\* differ and both judgments say not similar.
C4_ScoreInUnitInterval ==
    m_pc = "ret" =>
        /\ 0 <= score /\ score <= 1000
        /\ (/\ predicted_errors[pred_i].error_type
                  # golden_errors[gold_i + 1].error_type
            /\ ~desc_similarity.is_similar
            /\ ~golden_similarity.is_similar) => score = 0

\* C17: when match_errors has dealt with a predicted error, the golden
\* errors it scored for it are exactly those no earlier predicted error was
\* paired with, each scored once; if none of them scored above 0.5 (a score
\* of exactly 0.5 is not above) the pair is (pred, None) and the used set is
\* what it was; otherwise the pair carries the golden error of highest
\* score among those above 0.5, the one of lowest index among equals, and
\* that index alone is added to the used set.
C17_GreedySelection ==
    (m_pc \in {"outer", "done"} /\ pred_i > 1) =>
        LET k == pred_i - 1
            used_before ==
                {matched_idx[j][1] :
                    j \in {j \in 1..(k - 1) : matched_idx[j] # None}}
            cand_idx == {cand_scores[n].idx : n \in 1..Len(cand_scores)}
            score_of(i) ==
                cand_scores[CHOOSE n \in 1..Len(cand_scores) :
                                cand_scores[n].idx = i].score
            qualifying == {i \in cand_idx : score_of(i) > Threshold}
            chosen == matched_idx[k]
        IN  /\ cand_idx = (0..(Len(golden_errors) - 1)) \ used_before
            /\ Len(cand_scores) = Cardinality(cand_idx)
            /\ IF qualifying = {}
               THEN /\ chosen = None
                    /\ matches[k] = <<predicted_errors[k], None>>
                    /\ used_golden_indices = used_before
               ELSE /\ chosen # None
                    /\ chosen[1] \in qualifying
                    /\ \A j \in qualifying :
                          /\ score_of(j) <= score_of(chosen[1])
                          /\ score_of(j) = score_of(chosen[1]) => chosen[1] <= j
                    /\ matches[k] = <<predicted_errors[k],
                                      Some(golden_errors[chosen[1] + 1])>>
                    /\ used_golden_indices = used_before \cup {chosen[1]}

\* the first predicted error took golden error 0; the only golden error
\* left scored exactly 0.5 for the second predicted error, which is
\* unmatched
C17_Witness ==
    /\ m_pc = "done"
    /\ Len(predicted_errors) = 2
    /\ Len(golden_errors) = 2
    /\ matched_idx = <<Some(0), None>>
    /\ cand_scores = <<[idx |-> 1, score |-> Threshold]>>
    /\ matches[2] = <<predicted_errors[2], None>>
    /\ used_golden_indices = {0}

\* C20: match_errors calls the oracle twice for each pair of a predicted
\* error and a golden error not yet used, and for no other pair: when it has
\* dealt with some predicted errors, the calls made are twice the sum, over
\* those predicted errors, of the number of golden errors less the number
\* of earlier predicted errors that were matched, plus two for each golden
\* error already scored for the current one; in all at most 2 * P * G.
C20_OracleCalls ==
    LET G == Len(golden_errors)
        dealt == Len(matched_idx)
        before(i) == Cardinality({j \in 1..(i - 1) : matched_idx[j] # None})
        candidates[k \in 0..dealt] ==
            IF k = 0 THEN 0 ELSE candidates[k - 1] + (G - before(k))
        total == 2 * candidates[dealt]
    IN  /\ m_pc \in {"outer", "done"} => oracle_calls = total
        /\ m_pc = "inner" => oracle_calls = total + 2 * Len(cand_scores)
        /\ m_pc = "fix" => oracle_calls = total + 2 * Len(cand_scores) + 1
        /\ m_pc = "ret" => oracle_calls = total + 2 * Len(cand_scores) + 2
        /\ m_pc = "done" => dealt = Len(predicted_errors)
        /\ oracle_calls <= 2 * Len(predicted_errors) * G

\* two predicted and two golden errors, the first predicted error of
\* another category than the first golden error and matched: two
\* candidates, then one, six calls
C20_Witness ==
    /\ m_pc = "done"
    /\ Len(predicted_errors) = 2
    /\ Len(golden_errors) = 2
    /\ predicted_errors[1].error_type # golden_errors[1].error_type
    /\ matched_idx[1] # None
    /\ oracle_calls = 6

\* C25: as long as every confidence the service reported lies in [0, 1],
\* a predicted error is matched exactly when some golden error not yet
\* used has its category, whatever the service answered, and the golden
\* error taken is one of those; so when match_errors returns, the matched
\* predictions of each category are as many as the lesser of the numbers
\* of predicted and of golden errors of that category.
C25_MatchedIffSameCategoryLeft ==
    in_range =>
        LET used_before(i) == {matched_idx[k][1] : k \in
                                  {h \in 1..(i - 1) : matched_idx[h] # None}}
            left(i) == {j \in 0..(Len(golden_errors) - 1) :
                           /\ j \notin used_before(i)
                           /\ golden_errors[j + 1].error_type
                                 = predicted_errors[i].error_type}
        IN  /\ \A i \in 1..Len(matched_idx) :
                  /\ matched_idx[i] # None <=> left(i) # {}
                  /\ matched_idx[i] # None => matched_idx[i][1] \in left(i)
            /\ m_pc = "done" =>
                  \A c \in Categories :
                      LET np == Cardinality({i \in 1..Len(predicted_errors) :
                                    predicted_errors[i].error_type = c})
                          ng == Cardinality({j \in 1..Len(golden_errors) :
                                    golden_errors[j].error_type = c})
                          nm == Cardinality({i \in 1..Len(matches) :
                                    /\ matches[i][1].error_type = c
                                    /\ matches[i][2] # None})
                      IN  nm = IF np <= ng THEN np ELSE ng

\* two predicted errors of E1 against golden errors of E1 and E1, every
\* confidence within [0, 1]: the first prediction took the second golden
\* error, the second prediction the first
C25_Witness ==
    /\ in_range
    /\ m_pc = "done"
    /\ Len(predicted_errors) = 2
    /\ Len(golden_errors) = 2
    /\ \A i \in 1..2 : predicted_errors[i].error_type = "E1"
    /\ \A j \in 1..2 : golden_errors[j].error_type = "E1"
    /\ matched_idx = <<Some(1), Some(0)>>

----------------------------------------------------------------------------
(* Properties of evaluate_similarity, under SpecOracle *)

\* C5: evaluate_similarity never raises, and when the request fails, the
\* content is missing or empty, or the braces of the response do not hold
\* a JSON object, it returns is_similar = false with confidence 0.0.
C5_FailureIsZeroConfidence ==
    o_pc = "returned" =>
        /\ ~o_result.raised
        /\ (\/ o_outcome.kind \in {"error", "none"}
            \/ strip(o_outcome.content) = <<>>
            \/ /\ find(o_outcome.content, "{") # -1
               /\ json_loads(slice(strip(o_outcome.content),
                                   find(strip(o_outcome.content), "{"),
                                   rfind(strip(o_outcome.content), "}") + 1)).raised)
              => /\ ~o_result.value.is_similar
                 /\ o_result.value.confidence = 0

\* C6: a response text without braces is judged by the keywords:
\* is_similar is true exactly when the text contains "true" or "similar",
\* in any case of the letters, and then the confidence is 0.5.
C6_KeywordHeuristic ==
    (/\ o_pc = "returned"
     /\ o_outcome.kind = "text"
     /\ \A k \in 1..Len(o_outcome.content) :
           o_outcome.content[k] \notin {"{", "}"})
      => LET text == o_outcome.content
             occurs(w) ==
                 \E i \in 1..(Len(text) - Len(w) + 1) :
                    \A k \in 1..Len(w) : lower_char(text[i + k - 1]) = w[k]
             hit == occurs(<<"t", "r", "u", "e">>)
                    \/ occurs(<<"s", "i", "m", "i", "l", "a", "r">>)
         IN  /\ ~o_result.raised
             /\ o_result.value.is_similar <=> hit
             /\ hit => o_result.value.confidence = 5

\* the response was the word Similar and the judgment is (true, 0.5)
C6_Witness ==
    /\ o_pc = "returned"
    /\ o_outcome = Content(W_Similar)
    /\ o_result = Return(Judgment(TRUE, 5, MSG_heuristic))

\* C18: a response text that contains a brace is never judged by the
\* keywords: the text from its first "{" to its last "}" is read as JSON, and
\* when that fails the judgment is the failure judgment (false, 0.0).
C18_BraceTriggersJson ==
    (/\ o_pc = "returned"
     /\ o_outcome.kind = "text"
     /\ \E k \in 1..Len(o_outcome.content) :
           o_outcome.content[k] \in {"{", "}"})
      => /\ ~o_result.raised
         /\ o_result.value.reason # MSG_heuristic
         /\ o_result.value.reason = MSG_parsing_failed =>
               /\ ~o_result.value.is_similar
               /\ o_result.value.confidence = 0

----------------------------------------------------------------------------
(* Properties of the category-set metrics, under SpecMetrics *)

\* C7: the counts are those of the sets P and G of the categories of the
\* predicted and of the golden errors: true_positives = |P /\ G|,
\* false_positives = |P - G|, false_negatives = |G - P|; so the first two
\* add up to |P| and the first and the third to |G|, whatever the
\* duplicates.
C7_SetBasedCounts ==
    e_pc = "measured" =>
        LET m == error_type_metrics[1].value
            P == {c \in TypeCategories :
                     \E k \in 1..Len(predicted_errors) :
                        predicted_errors[k].error_type = c}
            G == {c \in TypeCategories :
                     \E k \in 1..Len(golden_errors) :
                        golden_errors[k].error_type = c}
        IN  /\ m.true_positives = Cardinality({c \in P : c \in G})
            /\ m.false_positives = Cardinality({c \in P : c \notin G})
            /\ m.false_negatives = Cardinality({c \in G : c \notin P})
            /\ m.true_positives + m.false_positives = Cardinality(P)
            /\ m.true_positives + m.false_negatives = Cardinality(G)

\* lists with duplicate categories: one category in common, one only
\* predicted, one only golden
C7_Witness ==
    /\ e_pc = "measured"
    /\ Len(predicted_errors) = 3 /\ Len(golden_errors) = 3
    /\ predicted_errors[1].error_type = predicted_errors[2].error_type
    /\ golden_errors[2].error_type = golden_errors[3].error_type
    /\ error_type_metrics[1].value.true_positives = 1
    /\ error_type_metrics[1].value.false_positives = 1
    /\ error_type_metrics[1].value.false_negatives = 1

\* C8: precision is tp/(tp+fp), recall tp/(tp+fn) and f1 2pr/(p+r), each 0
\* when its denominator is 0, and nothing raises; the counts (0,0,0) give
\* 0, 0, 0 and the counts (2,1,1) give 2/3, 2/3, 2/3.
C8_DerivedMetrics ==
    e_pc = "measured" =>
        /\ ~error_type_metrics[1].raised
        /\ LET m == error_type_metrics[1].value
               tp == m.true_positives
               fp == m.false_positives
               fn == m.false_negatives
               p == m.precision
               r == m.recall
               f == m.f1
           IN  /\ p.den > 0 /\ r.den > 0 /\ f.den > 0
               /\ IF tp + fp > 0 THEN p.num * (tp + fp) = tp * p.den
                  ELSE p.num = 0
               /\ IF tp + fn > 0 THEN r.num * (tp + fn) = tp * r.den
                  ELSE r.num = 0
               /\ IF p.num > 0 \/ r.num > 0
                  THEN f.num * (p.num * r.den + r.num * p.den)
                          = 2 * p.num * r.num * f.den
                  ELSE f.num = 0
               /\ (tp = 0 /\ fp = 0 /\ fn = 0)
                     => p.num = 0 /\ r.num = 0 /\ f.num = 0
               /\ (tp = 2 /\ fp = 1 /\ fn = 1)
                     => /\ p = [num |-> 2, den |-> 3]
                        /\ r = [num |-> 2, den |-> 3]
                        /\ f = [num |-> 2, den |-> 3]

\* the counts (2,1,1) were derived
C8_Witness ==
    /\ e_pc = "measured"
    /\ error_type_metrics[1].value.true_positives = 2
    /\ error_type_metrics[1].value.false_positives = 1
    /\ error_type_metrics[1].value.false_negatives = 1
    /\ error_type_metrics[1].value.f1 = [num |-> 2, den |-> 3]

----------------------------------------------------------------------------
(* Properties of the evaluation engine, under Spec *)

\* C9: over one file or more, the overall counts are the sums of the
\* files' counts and the overall precision and recall are derived of those
\* sums; files of counts (1,0,1) and (1,1,0) give (2,1,1), precision 2/3
\* and recall 2/3.
C9_AggregateSumsCounts ==
    (e_pc = "aggregated" /\ Len(file_results) > 0) =>
        LET n == Len(file_results)
            o == overall_result[1].overall_error_type_metrics
            tps[k \in 0..n] ==
                IF k = 0 THEN 0
                ELSE tps[k - 1] + file_results[k].error_type_metrics.true_positives
            fps[k \in 0..n] ==
                IF k = 0 THEN 0
                ELSE fps[k - 1] + file_results[k].error_type_metrics.false_positives
            fns[k \in 0..n] ==
                IF k = 0 THEN 0
                ELSE fns[k - 1] + file_results[k].error_type_metrics.false_negatives
        IN  /\ o.true_positives = tps[n]
            /\ o.false_positives = fps[n]
            /\ o.false_negatives = fns[n]
            /\ IF tps[n] + fps[n] > 0
               THEN o.precision.num * (tps[n] + fps[n]) = tps[n] * o.precision.den
               ELSE o.precision.num = 0
            /\ IF tps[n] + fns[n] > 0
               THEN o.recall.num * (tps[n] + fns[n]) = tps[n] * o.recall.den
               ELSE o.recall.num = 0
            /\ (/\ n = 2
                /\ file_results[1].error_type_metrics.true_positives = 1
                /\ file_results[1].error_type_metrics.false_positives = 0
                /\ file_results[1].error_type_metrics.false_negatives = 1
                /\ file_results[2].error_type_metrics.true_positives = 1
                /\ file_results[2].error_type_metrics.false_positives = 1
                /\ file_results[2].error_type_metrics.false_negatives = 0)
                  => /\ o.true_positives = 2
                     /\ o.false_positives = 1
                     /\ o.false_negatives = 1
                     /\ o.precision = [num |-> 2, den |-> 3]
                     /\ o.recall = [num |-> 2, den |-> 3]

\* the files of counts (1,0,1) and (1,1,0) were aggregated
C9_Witness ==
    /\ e_pc = "aggregated"
    /\ Len(file_results) = 2
    /\ file_results[1].error_type_metrics.false_negatives = 1
    /\ file_results[1].error_type_metrics.false_positives = 0
    /\ file_results[2].error_type_metrics.false_positives = 1
    /\ file_results[2].error_type_metrics.false_negatives = 0
    /\ overall_result[1].overall_error_type_metrics.true_positives = 2
    /\ overall_result[1].overall_error_type_metrics.precision
          = [num |-> 2, den |-> 3]

\* C10: over no file, aggregate_results does not raise and returns
\* total_files = 0, precision, recall and f1 0.0 with the counts 0, both
\* accuracies 0.0, no per-file result and an empty breakdown.
C10_EmptyAggregate ==
    (file_results = <<>> /\ e_pc \in {"aggregated", "aborted"}) =>
        /\ e_pc = "aggregated"
        /\ overall_result # None
        /\ LET o == overall_result[1]
               m == o.overall_error_type_metrics
           IN  /\ o.total_files = 0
               /\ m.precision.num = 0 /\ m.recall.num = 0 /\ m.f1.num = 0
               /\ m.true_positives = 0
               /\ m.false_positives = 0
               /\ m.false_negatives = 0
               /\ o.overall_description_accuracy.num = 0
               /\ o.overall_golden_answer_accuracy.num = 0
               /\ o.per_file_results = <<>>
               /\ DOMAIN o.error_type_breakdown = {}

\* aggregate_results returned for no file
C10_Witness ==
    /\ e_pc = "aggregated"
    /\ file_results = <<>>
    /\ overall_result # None
    /\ overall_result[1].total_files = 0

\* C15: when the golden list is empty, match_errors returns one pair
\* (predicted error, None) for each predicted error, in order, and the
\* category-set metrics of the document are no true positive, no false
\* negative, and as many false positives as there are distinct predicted
\* categories.
C15_EmptyGolden ==
    /\ (m_pc = "done" /\ golden_errors = <<>>) =>
          /\ Len(matches) = Len(predicted_errors)
          /\ \A i \in 1..Len(matches) :
                matches[i] = <<predicted_errors[i], None>>
    /\ \A k \in 1..Len(file_results) :
          LET r == file_results[k]
              evals == r.error_evaluations
          IN  r.golden_errors_count = 0 =>
                 /\ \A j \in 1..Len(evals) :
                       evals[j].matched_golden_error = None
                 /\ r.error_type_metrics.true_positives = 0
                 /\ r.error_type_metrics.false_negatives = 0
                 /\ r.error_type_metrics.false_positives
                       = Cardinality({evals[j].predicted_error.error_type :
                                         j \in 1..Len(evals)})

\* one predicted error of category E2 and no golden error: the pair
\* (pred, None), and tp = 0, fp = 1, fn = 0
C15_Witness ==
    /\ Len(file_results) = 1
    /\ file_results[1].golden_errors_count = 0
    /\ file_results[1].predicted_errors_count = 1
    /\ file_results[1].error_evaluations[1].predicted_error.error_type = "E2"
    /\ file_results[1].error_evaluations[1].matched_golden_error = None
    /\ file_results[1].error_type_metrics.true_positives = 0
    /\ file_results[1].error_type_metrics.false_positives = 1
    /\ file_results[1].error_type_metrics.false_negatives = 0

\* C21: the description accuracy of a document is the number of matched
\* evaluations whose description judgment is similar over the number of
\* matched evaluations, and 0.0 when none is matched; the fix accuracy is
\* the same over the fix judgments; an unmatched evaluation enters neither
\* count.
C21_TextAccuracy ==
    \A k \in 1..Len(file_results) :
        LET r == file_results[k]
            evals == r.error_evaluations
            matched == {i \in 1..Len(evals) :
                           evals[i].matched_golden_error # None}
            desc_ok == {i \in matched :
                           evals[i].description_similar[1].is_similar}
            fix_ok == {i \in matched :
                          evals[i].golden_answer_similar[1].is_similar}
        IN  IF matched = {}
            THEN /\ r.description_accuracy = [num |-> 0, den |-> 1]
                 /\ r.golden_answer_accuracy = [num |-> 0, den |-> 1]
            ELSE /\ r.description_accuracy.num * Cardinality(matched)
                       = Cardinality(desc_ok) * r.description_accuracy.den
                 /\ r.golden_answer_accuracy.num * Cardinality(matched)
                       = Cardinality(fix_ok) * r.golden_answer_accuracy.den

\* a document of one unmatched and one matched evaluation, the matched one
\* with a similar description and a dissimilar fix: accuracies 1 and 0
C21_Witness ==
    /\ Len(file_results) = 1
    /\ Len(file_results[1].error_evaluations) = 2
    /\ file_results[1].error_evaluations[1].matched_golden_error = None
    /\ file_results[1].error_evaluations[2].matched_golden_error # None
    /\ file_results[1].error_evaluations[2].description_similar[1].is_similar
    /\ ~file_results[1].error_evaluations[2].golden_answer_similar[1].is_similar
    /\ file_results[1].description_accuracy = [num |-> 1, den |-> 1]
    /\ file_results[1].golden_answer_accuracy = [num |-> 0, den |-> 1]

----------------------------------------------------------------------------
(* Properties of run_evaluation, under SpecDriver *)

\* C11: a result file that does not load, has no golden answer, or whose
\* evaluation raises is passed over and the loop goes on: file_results holds,
\* in the order of the files, one result for each file that loaded, found
\* its golden answer and was evaluated, that result being the one of the
\* file's own errors whatever happened to the other files; and the
\* aggregated result holds exactly those results.
C11_FailedFilesSkipped ==
    LET n == Len(file_log)
        ok == {k \in 1..n : file_log[k] = "completed"}
        rank(k) == Cardinality({j \in ok : j <= k})
        whole(data, fields) == \A j \in 1..Len(data) : DOMAIN data[j] = fields
        loadable(f) ==
            /\ whole(f.errors, {"error_type", "error_description", "fix_answer"})
            /\ f.golden # None
            /\ whole(f.golden[1], {"error_type", "error_description", "golden_answer"})
        types(data) == {data[j].error_type : j \in 1..Len(data)}
    IN  /\ d_pc \in {"loop", "file"} => n = file_pos - 1
        /\ d_pc \in {"save", "completed"} => n = Len(result_files)
        /\ n <= Len(result_files)
        /\ Len(file_results) = Cardinality(ok)
        /\ \A k \in 1..n :
              /\ ~loadable(result_files[k]) => file_log[k] # "completed"
              /\ file_log[k] = "completed" =>
                    LET f == result_files[k]
                        r == file_results[rank(k)]
                    IN  /\ r.predicted_errors_count = Len(f.errors)
                        /\ r.golden_errors_count = Len(f.golden[1])
                        /\ Len(r.error_evaluations) = Len(f.errors)
                        /\ \A j \in 1..Len(f.errors) :
                              r.error_evaluations[j].predicted_error = f.errors[j]
                        /\ r.error_type_metrics.true_positives
                              = Cardinality(types(f.errors) \cap types(f.golden[1]))
                        /\ r.error_type_metrics.false_positives
                              = Cardinality(types(f.errors) \ types(f.golden[1]))
                        /\ r.error_type_metrics.false_negatives
                              = Cardinality(types(f.golden[1]) \ types(f.errors))
        /\ d_pc \in {"save", "completed"} =>
              /\ overall_result[1].total_files = Cardinality(ok)
              /\ overall_result[1].per_file_results = file_results

\* the first file was malformed, the second was evaluated, and the
\* aggregated result holds the second alone
C11_Witness ==
    /\ d_pc = "completed"
    /\ Len(result_files) = 2
    /\ \E j \in 1..Len(result_files[1].errors) :
          DOMAIN result_files[1].errors[j] = {"error_type"}
    /\ file_log = <<"error", "completed">>
    /\ overall_result[1].total_files = 1
    /\ overall_result[1].per_file_results[1].predicted_errors_count
          = Len(result_files[2].errors)

\* C14, as stated: the category of every predicted error left unmatched is
\* among the categories the document's false_positives counts.
C14_UnmatchedIsFalsePositive ==
    LET ok == {k \in 1..Len(file_log) : file_log[k] = "completed"}
        rank(k) == Cardinality({j \in ok : j <= k})
    IN  \A k \in ok :
           LET f == result_files[k]
               r == file_results[rank(k)]
               sets == get_error_type_sets(f.errors, f.golden[1])
           IN  \A j \in 1..Len(r.error_evaluations) :
                  r.error_evaluations[j].matched_golden_error = None =>
                     r.error_evaluations[j].predicted_error.error_type
                        \in sets[1] \ sets[2]

\* C14, amended: false_positives counts the predicted categories that no
\* golden error of the document has, and true_positives those that one
\* has, whether the predictions were matched or not: the category of an
\* unmatched predicted error is counted in false_positives when no golden
\* error has it, and in true_positives, not in false_positives, when one has.
C14_UnmatchedCountedByCategory ==
    LET ok == {k \in 1..Len(file_log) : file_log[k] = "completed"}
        rank(k) == Cardinality({j \in ok : j <= k})
        types(data) == {data[j].error_type : j \in 1..Len(data)}
    IN  \A k \in ok :
           LET f == result_files[k]
               r == file_results[rank(k)]
               counted_fp == types(f.errors) \ types(f.golden[1])
               counted_tp == types(f.errors) \cap types(f.golden[1])
           IN  /\ r.error_type_metrics.false_positives = Cardinality(counted_fp)
               /\ r.error_type_metrics.true_positives = Cardinality(counted_tp)
               /\ \A j \in 1..Len(r.error_evaluations) :
                     LET ev == r.error_evaluations[j]
                         c == ev.predicted_error.error_type
                     IN  ev.matched_golden_error = None =>
                            IF \E i \in 1..Len(f.golden[1]) :
                                  f.golden[1][i].error_type = c
                            THEN c \in counted_tp /\ c \notin counted_fp
                            ELSE c \in counted_fp

\* two predicted errors of one category and one golden error of that
\* category: the second predicted error is unmatched and the document has
\* one true positive and no false positive
C14_Witness ==
    /\ file_log # <<>> /\ file_log[1] = "completed"
    /\ Len(result_files[1].errors) = 2
    /\ Len(result_files[1].golden[1]) = 1
    /\ file_results[1].error_evaluations[1].matched_golden_error # None
    /\ file_results[1].error_evaluations[2].matched_golden_error = None
    /\ file_results[1].error_evaluations[2].predicted_error.error_type
          = result_files[1].golden[1][1].error_type
    /\ file_results[1].error_type_metrics.true_positives = 1
    /\ file_results[1].error_type_metrics.false_positives = 0

\* C13: when OPENAI_API_KEY is not set the run stops at construction: no
\* result file is found, loaded or evaluated.
C13_MissingKeyIsFatal ==
    openai_api_key = <<>> =>
        /\ d_pc \in {"new", "failed"}
        /\ result_files = <<>>
        /\ file_log = <<>>
        /\ file_results = <<>>

----------------------------------------------------------------------------
(* Properties of run_evaluation, under SpecDriverLive *)

\* C12: whatever the result files are and whatever happens to each of them,
\* a run that has started comes to its end, and at its end both files are
\* written: the detailed one holds the aggregate of the files that were
\* evaluated (their number, their results in order, the sums of their
\* counts), the summary holds the same number and the same ratios; when no
\* file was evaluated both hold the report of zeros.
C12_RunCompletesAndWrites ==
    /\ [](d_pc = "completed" =>
            /\ detailed_result_file # None /\ summary_result_file # None
            /\ LET ok == {k \in 1..Len(file_log) : file_log[k] = "completed"}
                   detailed == detailed_result_file[1]
                   summary == summary_result_file[1]
                   zero == FrInt(0)
               IN  /\ Len(file_log) = Len(result_files)
                   /\ detailed.total_files = Cardinality(ok)
                   /\ detailed.per_file_results = file_results
                   /\ Len(file_results) = Cardinality(ok)
                   /\ detailed.overall_error_type_metrics.true_positives
                         = sum_counts(file_results, "true_positives")
                   /\ detailed.overall_error_type_metrics.false_positives
                         = sum_counts(file_results, "false_positives")
                   /\ detailed.overall_error_type_metrics.false_negatives
                         = sum_counts(file_results, "false_negatives")
                   /\ summary.total_files = Cardinality(ok)
                   /\ summary.overall_metrics.error_type.precision
                         = detailed.overall_error_type_metrics.precision
                   /\ summary.overall_metrics.error_type.recall
                         = detailed.overall_error_type_metrics.recall
                   /\ summary.overall_metrics.error_type.f1_score
                         = detailed.overall_error_type_metrics.f1
                   /\ summary.overall_metrics.description_accuracy
                         = detailed.overall_description_accuracy
                   /\ summary.overall_metrics.fix_solution_accuracy
                         = detailed.overall_golden_answer_accuracy
                   /\ DOMAIN summary.error_type_breakdown
                         = DOMAIN detailed.error_type_breakdown
                   /\ ok = {} =>
                         /\ detailed = [total_files |-> 0,
                               overall_error_type_metrics |->
                                   ErrorTypeMetrics(zero, zero, zero, 0, 0, 0),
                               overall_description_accuracy |-> zero,
                               overall_golden_answer_accuracy |-> zero,
                               per_file_results |-> <<>>,
                               error_type_breakdown |-> <<>>]
                         /\ summary = [total_files |-> 0,
                               overall_metrics |->
                                   [error_type |->
                                        [precision |-> zero, recall |-> zero,
                                         f1_score |-> zero],
                                    description_accuracy |-> zero,
                                    fix_solution_accuracy |-> zero],
                               error_type_breakdown |-> <<>>])
    /\ (d_pc = "ready" ~> d_pc = "completed")

\* a run over two files, neither of which was evaluated, has ended and
\* both files hold the report of zeros
C12_Witness ==
    /\ d_pc = "completed"
    /\ Len(result_files) = 2
    /\ file_log = <<"not found", "error">>
    /\ detailed_result_file # None /\ summary_result_file # None
    /\ detailed_result_file[1].total_files = 0
    /\ summary_result_file[1].total_files = 0

----------------------------------------------------------------------------
(* Properties of batch_evaluate_similarity, under SpecBatch *)

\* C16: batch_evaluate_similarity over n text pairs returns n judgments,
\* calls evaluate_similarity once for each pair, in the order of the pairs,
\* and its i-th judgment is the one its i-th call returned for the i-th
\* pair; a pair met before is evaluated again.
C16_BatchInOrder ==
    /\ Len(batch_calls) = Len(batch_results)
    /\ Len(batch_results) <= Len(text_pairs)
    /\ b_pc = "done" => Len(batch_results) = Len(text_pairs)
    /\ \A i \in 1..Len(batch_calls) :
          /\ <<batch_calls[i].text1, batch_calls[i].text2>> = text_pairs[i]
          /\ batch_results[i] = batch_calls[i].result

\* the same pair twice: two calls, and two judgments that differ
C16_Witness ==
    /\ b_pc = "done"
    /\ Len(text_pairs) = 2
    /\ text_pairs[1] = text_pairs[2]
    /\ Len(batch_calls) = 2
    /\ batch_results[1].is_similar /\ ~batch_results[2].is_similar

----------------------------------------------------------------------------
(* Properties of _evaluate_single_error, under SpecEval *)

\* C19: _evaluate_single_error calls the oracle for the matched pairs only,
\* twice for each, first for the descriptions and then for the fixes, and
\* keeps what the two calls returned; error_type_correct is the equality of
\* the two categories. For a pair without golden error it calls nothing and
\* returns error_type_correct = false and no judgment.
C19_EvaluateSingleError ==
    e_pc \in {"evaluating", "eval_fix"} =>
        LET n == Len(error_evaluations)
            matched == {j \in 1..n :
                           error_evaluations[j].matched_golden_error # None}
            rank(j) == Cardinality({i \in matched : i <= j})
        IN  /\ Len(eval_calls) = 2 * Cardinality(matched)
                                   + (IF e_pc = "eval_fix" THEN 1 ELSE 0)
            /\ \A j \in 1..n :
                  LET ev == error_evaluations[j]
                  IN  /\ ev.predicted_error = matches[j][1]
                      /\ ev.matched_golden_error = matches[j][2]
                      /\ IF ev.matched_golden_error = None
                         THEN /\ ev.error_type_correct = FALSE
                              /\ ev.description_similar = None
                              /\ ev.golden_answer_similar = None
                         ELSE /\ ev.error_type_correct
                                    = (ev.predicted_error.error_type
                                         = ev.matched_golden_error[1].error_type)
                              /\ eval_calls[2 * rank(j) - 1]
                                    = <<"description",
                                        Return(ev.description_similar[1])>>
                              /\ eval_calls[2 * rank(j)]
                                    = <<"golden_answer",
                                        Return(ev.golden_answer_similar[1])>>

\* an unmatched pair and a pair matched across two categories have been
\* evaluated with two calls, whose judgments differ and are both kept
C19_Witness ==
    /\ e_pc = "evaluating"
    /\ Len(error_evaluations) = 2
    /\ error_evaluations[1].matched_golden_error = None
    /\ error_evaluations[2].matched_golden_error # None
    /\ error_evaluations[2].predicted_error.error_type = "E1"
    /\ error_evaluations[2].matched_golden_error[1].error_type = "E2"
    /\ ~error_evaluations[2].error_type_correct
    /\ Len(eval_calls) = 2
    /\ error_evaluations[2].description_similar[1].is_similar
    /\ ~error_evaluations[2].golden_answer_similar[1].is_similar

----------------------------------------------------------------------------
(* Properties of aggregate_results, under SpecFiles *)

\* C22: the breakdown of aggregate_results groups every evaluation of
\* every file by its predicted category: a matched evaluation with the
\* category correct is one true positive, a matched evaluation with the
\* category incorrect or an unmatched one is one false positive,
\* false_negatives stays 0, and a category only golden errors have has no
\* entry.
C22_BreakdownByPredictedCategory ==
    (e_pc = "aggregated" /\ Len(file_results) > 0) =>
        LET b == overall_result[1].error_type_breakdown
            entries == {<<k, i>> \in (1..Len(file_results)) \X (1..MaxErrs) :
                           i <= Len(file_results[k].error_evaluations)}
            ev(e) == file_results[e[1]].error_evaluations[e[2]]
        IN  /\ DOMAIN b = {ev(e).predicted_error.error_type : e \in entries}
            /\ \A c \in DOMAIN b :
                  /\ b[c].true_positives =
                        Cardinality({e \in entries :
                            /\ ev(e).predicted_error.error_type = c
                            /\ ev(e).matched_golden_error # None
                            /\ ev(e).error_type_correct})
                  /\ b[c].false_positives =
                        Cardinality({e \in entries :
                            /\ ev(e).predicted_error.error_type = c
                            /\ \/ ev(e).matched_golden_error = None
                               \/ ~ev(e).error_type_correct})
                  /\ b[c].false_negatives = 0

\* two files aggregated: a prediction of E1 matched with a golden error of
\* E2, and a prediction of E1 left unmatched beside a golden error of E2;
\* the breakdown has the one entry E1 with no true and two false positives
C22_Witness ==
    /\ e_pc = "aggregated"
    /\ Len(file_results) = 2
    /\ Len(file_results[1].error_evaluations) = 1
    /\ file_results[1].error_evaluations[1].predicted_error.error_type = "E1"
    /\ file_results[1].error_evaluations[1].matched_golden_error # None
    /\ ~file_results[1].error_evaluations[1].error_type_correct
    /\ Len(file_results[2].error_evaluations) = 1
    /\ file_results[2].error_evaluations[1].predicted_error.error_type = "E1"
    /\ file_results[2].error_evaluations[1].matched_golden_error = None
    /\ file_results[2].golden_errors_count = 1
    /\ DOMAIN overall_result[1].error_type_breakdown = {"E1"}
    /\ overall_result[1].error_type_breakdown["E1"].true_positives = 0
    /\ overall_result[1].error_type_breakdown["E1"].false_positives = 2

\* C27: in the breakdown of aggregate_results the true and false
\* positives of all the categories add up to the number of predicted
\* errors of all the files; every entry counts at least one prediction and
\* no false negative, so that its recall is 1.0 when it has a true
\* positive and 0.0 when it has none.
C27_BreakdownCountsEveryPrediction ==
    (e_pc = "aggregated" /\ Len(file_results) > 0) =>
        LET b == overall_result[1].error_type_breakdown
            n == Len(file_results)
            predicted_upto[k \in 0..n] ==
                IF k = 0 THEN 0
                ELSE predicted_upto[k - 1]
                        + file_results[k].predicted_errors_count
            counted(c) == IF c \in DOMAIN b
                          THEN b[c].true_positives + b[c].false_positives
                          ELSE 0
        IN  /\ DOMAIN b \subseteq Categories
            /\ counted("E1") + counted("E2") = predicted_upto[n]
            /\ \A c \in DOMAIN b :
                  /\ b[c].true_positives + b[c].false_positives >= 1
                  /\ b[c].false_negatives = 0
                  /\ b[c].recall = IF b[c].true_positives > 0
                                   THEN [num |-> 1, den |-> 1]
                                   ELSE [num |-> 0, den |-> 1]

\* two files of two and one predicted errors aggregated: the entry of E1
\* has a true positive and recall 1, the entry of E2 two false positives
\* and recall 0, three predictions in all
C27_Witness ==
    /\ e_pc = "aggregated"
    /\ Len(file_results) = 2
    /\ file_results[1].predicted_errors_count = 2
    /\ file_results[2].predicted_errors_count = 1
    /\ DOMAIN overall_result[1].error_type_breakdown = {"E1", "E2"}
    /\ overall_result[1].error_type_breakdown["E1"].true_positives = 1
    /\ overall_result[1].error_type_breakdown["E1"].false_positives = 0
    /\ overall_result[1].error_type_breakdown["E1"].recall = [num |-> 1, den |-> 1]
    /\ overall_result[1].error_type_breakdown["E2"].true_positives = 0
    /\ overall_result[1].error_type_breakdown["E2"].false_positives = 2
    /\ overall_result[1].error_type_breakdown["E2"].recall = [num |-> 0, den |-> 1]

\* C28: the precision, the recall and the F1 of every metrics record, of
\* a file, of the whole run and of a category, and the description and
\* fix accuracies of every file and of the whole run, lie in [0, 1]; and
\* the F1 of a record is 0 exactly when its true_positives is 0.
C28_RatiosInUnitInterval ==
    LET unit(x) == x.num >= 0 /\ x.den > 0 /\ x.num <= x.den
        sound(m) == /\ unit(m.precision)
                    /\ unit(m.recall)
                    /\ unit(m.f1)
                    /\ (m.f1.num = 0 <=> m.true_positives = 0)
    IN  /\ \A k \in 1..Len(file_results) :
              /\ sound(file_results[k].error_type_metrics)
              /\ unit(file_results[k].description_accuracy)
              /\ unit(file_results[k].golden_answer_accuracy)
        /\ overall_result # None =>
              /\ sound(overall_result[1].overall_error_type_metrics)
              /\ unit(overall_result[1].overall_description_accuracy)
              /\ unit(overall_result[1].overall_golden_answer_accuracy)
              /\ \A c \in DOMAIN overall_result[1].error_type_breakdown :
                    sound(overall_result[1].error_type_breakdown[c])

\* two files aggregated: the first with no true positive and F1 0, the
\* second with precision 1, recall 1/2 and F1 2/3; the overall description
\* accuracy is 1/2 and the entry of E1 has precision 1/2
C28_Witness ==
    /\ e_pc = "aggregated"
    /\ Len(file_results) = 2
    /\ file_results[1].error_type_metrics.true_positives = 0
    /\ file_results[1].error_type_metrics.f1 = [num |-> 0, den |-> 1]
    /\ file_results[2].error_type_metrics.precision = [num |-> 1, den |-> 1]
    /\ file_results[2].error_type_metrics.recall = [num |-> 1, den |-> 2]
    /\ file_results[2].error_type_metrics.f1 = [num |-> 2, den |-> 3]
    /\ overall_result[1].overall_description_accuracy = [num |-> 1, den |-> 2]
    /\ "E1" \in DOMAIN overall_result[1].error_type_breakdown
    /\ overall_result[1].error_type_breakdown["E1"].precision
          = [num |-> 1, den |-> 2]

----------------------------------------------------------------------------
(* Properties of evaluate_single_file, under SpecPairs *)

\* C24: as long as every confidence the service reported lies in [0, 1],
\* a golden error of another category scores at most 0.4, match_errors
\* pairs no predicted error with a golden error of another category, and
\* every matched evaluation has error_type_correct true, so that no
\* evaluation takes the matched-but-incorrect branch of the breakdown.
C24_SameCategoryPairs ==
    in_range =>
        /\ m_pc = "inner" =>
              \A k \in 1..Len(cand_scores) :
                  predicted_errors[pred_i].error_type
                        # golden_errors[cand_scores[k].idx + 1].error_type
                     => cand_scores[k].score <= 400
        /\ \A i \in 1..Len(matches) :
              matches[i][2] # None =>
                  matches[i][1].error_type = matches[i][2][1].error_type
        /\ \A i \in 1..Len(error_evaluations) :
              error_evaluations[i].matched_golden_error # None =>
                  error_evaluations[i].error_type_correct

\* a predicted error of E1 against golden errors of E2 and E1, the service
\* reporting confidence 1.0 twice for the first: it scored 0.4, the second
\* was taken, and the evaluation has error_type_correct true
C24_Witness ==
    /\ in_range
    /\ e_pc = "evaluating"
    /\ Len(predicted_errors) = 1
    /\ Len(golden_errors) = 2
    /\ predicted_errors[1].error_type = "E1"
    /\ golden_errors[1].error_type = "E2"
    /\ golden_errors[2].error_type = "E1"
    /\ Len(cand_scores) = 2
    /\ cand_scores[1].score = 400
    /\ matched_idx = <<Some(1)>>
    /\ Len(error_evaluations) = 1
    /\ error_evaluations[1].matched_golden_error = Some(golden_errors[2])
    /\ error_evaluations[1].error_type_correct

----------------------------------------------------------------------------
(* Properties of _find_golden_answer_file, under SpecGolden *)

\* C23: the golden answer file found for a readme_name is the README.json
\* of the first entry of the data directory, in the order of the
\* traversal, that is a folder, whose name equals the readme_name, equals
\* it without its extension, contains the extension-less readme_name or is
\* contained in it, and that holds a README.json; a matching folder
\* without README.json is passed over; None is found when no matching
\* folder holds the file.
C23_FirstMatchHoldingTheFile ==
    \A n \in 1..Len(golden_answer_files) :
        LET readme_name == golden_answer_files[n].readme_name
            found == golden_answer_files[n].golden_answer_file
            base == IF readme_name = <<"a", "b", ".", "m">>
                    THEN <<"a", "b">> ELSE readme_name
            qualifies(k) ==
                /\ data_root_dir[k].is_dir
                /\ \/ data_root_dir[k].name = readme_name
                   \/ data_root_dir[k].name = base
                   \/ contains(base, data_root_dir[k].name)
                   \/ contains(data_root_dir[k].name, base)
            holding == {k \in 1..Len(data_root_dir) :
                           qualifies(k) /\ data_root_dir[k].json_exists}
        IN  IF holding = {} THEN found = None
            ELSE \E k \in holding :
                    /\ \A h \in holding : k <= h
                    /\ found = Some([repo |-> data_root_dir[k].repo,
                                     folder |-> data_root_dir[k].name])

\* for "ab.m", the folder "abc" of repo A matches and holds no README.json,
\* the folder "a" of repo B comes after it and holds one: the file of the
\* second is found
C23_Witness ==
    /\ Len(data_root_dir) = 2
    /\ data_root_dir[1] = [repo |-> "A", name |-> <<"a", "b", "c">>,
                           is_dir |-> TRUE, json_exists |-> FALSE]
    /\ data_root_dir[2] = [repo |-> "B", name |-> <<"a">>,
                           is_dir |-> TRUE, json_exists |-> TRUE]
    /\ Len(golden_answer_files) = 1
    /\ golden_answer_files[1].readme_name = <<"a", "b", ".", "m">>
    /\ golden_answer_files[1].golden_answer_file
          = Some([repo |-> "B", folder |-> <<"a">>])

\* C23 as stated: the search stops at the first folder whose name
\* qualifies, the result is that folder's README.json, and None is found
\* only when no folder qualifies.
C23_FirstQualifyingFolderWins ==
    \A n \in 1..Len(golden_answer_files) :
        LET readme_name == golden_answer_files[n].readme_name
            found == golden_answer_files[n].golden_answer_file
            base == IF readme_name = <<"a", "b", ".", "m">>
                    THEN <<"a", "b">> ELSE readme_name
            qualifying == {k \in 1..Len(data_root_dir) :
                /\ data_root_dir[k].is_dir
                /\ \/ data_root_dir[k].name = readme_name
                   \/ data_root_dir[k].name = base
                   \/ contains(base, data_root_dir[k].name)
                   \/ contains(data_root_dir[k].name, base)}
        IN  IF qualifying = {} THEN found = None
            ELSE \E k \in qualifying :
                    /\ \A h \in qualifying : k <= h
                    /\ found = Some([repo |-> data_root_dir[k].repo,
                                     folder |-> data_root_dir[k].name])

\* C26: the golden answer file paired with a predicted result depends on
\* its readme_name and on the data directory, not on its repo_name: two
\* results of the same readme_name are paired with the same file, whatever
\* their repo_name.
C26_GoldenIgnoresRepoName ==
    \A i, j \in 1..Len(golden_answer_files) :
        golden_answer_files[i].readme_name = golden_answer_files[j].readme_name
           => golden_answer_files[i].golden_answer_file
                 = golden_answer_files[j].golden_answer_file

\* the results of repo A and of repo B, both of readme_name "ab", are
\* paired with the README.json of the folder "ab" of repo A, while repo B
\* has a folder "ab" with its own README.json
C26_Witness ==
    /\ Len(data_root_dir) = 2
    /\ data_root_dir[1] = [repo |-> "A", name |-> <<"a", "b">>,
                           is_dir |-> TRUE, json_exists |-> TRUE]
    /\ data_root_dir[2] = [repo |-> "B", name |-> <<"a", "b">>,
                           is_dir |-> TRUE, json_exists |-> TRUE]
    /\ Len(golden_answer_files) = 2
    /\ golden_answer_files[1].repo_name = "A"
    /\ golden_answer_files[2].repo_name = "B"
    /\ golden_answer_files[1].readme_name = <<"a", "b">>
    /\ golden_answer_files[2].readme_name = <<"a", "b">>
    /\ golden_answer_files[2].golden_answer_file
          = Some([repo |-> "A", folder |-> <<"a", "b">>])

----------------------------------------------------------------------------
(* Properties of process_batch, under SpecInfer *)

\* C29: process_batch returns one record for each folder, in order, a
\* failure record for a folder that failed, and goes through all the
\* folders whatever failed; the records file holds only records of
\* success, and a summary report made of it counts no failed processing.
C29_FailuresReturnedNotPersisted ==
    /\ p_pc = "loop" => Len(records) = folder_i - 1
    /\ p_pc = "done" => Len(records) = Len(folders)
    /\ \A k \in 1..Len(records) :
          /\ records[k].readme_name = folders[k].name
          /\ records[k].success
                <=> folders[k].fate \in {"saved", "write_fails"}
    /\ records_file # None =>
          \A k \in 1..Len(records_file[1]) : records_file[1][k].success
    /\ summary_report # None => summary_report[1].failed_processing = 0

\* a batch of three folders, the first raising, the second succeeding,
\* the third without result, has returned three records; the file holds
\* the one success and the report counts one repository and no failure
C29_Witness ==
    /\ p_pc = "done"
    /\ Len(folders) = 3
    /\ folders[1].fate = "raises"
    /\ folders[2].fate = "saved"
    /\ folders[3].fate = "no_result"
    /\ Len(records) = 3
    /\ ~records[1].success /\ records[2].success /\ ~records[3].success
    /\ records_file = Some(<<records[2]>>)
    /\ summary_report # None
    /\ summary_report[1].total_repositories = 1
    /\ summary_report[1].failed_processing = 0

----------------------------------------------------------------------------
(* Properties of the ConfigLoader, under SpecConfig *)

\* C30: as long as neither save_config nor clear_cache was called, every
\* dictionary load_config returned from the file or from the cache had, at
\* its return, the values loaded from the configuration file, whatever the
\* callers assigned in the dictionaries returned before, nested entries
\* included.
C30_CacheIsolatedFromCallers ==
    c_pc = "on" =>
        \A i \in 1..Len(held) :
            held[i].source \in {"file", "cache"} =>
                held[i].returned =
                    [k \in Sections |->
                        IF config_file[held[i].config_type][1][k] = "${DATA}"
                        THEN "/env"
                        ELSE config_file[held[i].config_type][1][k]]

====
